---- MODULE Spec2Model ----
(***************************************************************************)
(* Wake-word detector of the ESP32 voice assistant (src/src/wake_word.cpp, *)
(* wake_word.h), the full-fidelity recorder that shares its microphone     *)
(* port (src/src/audio_input.cpp) and the application loop that sequences  *)
(* the two (src/src/main.cpp).                                             *)
(*                                                                         *)
(* Two execution contexts are modelled: the foreground (Arduino loopTask,  *)
(* core 1), which runs the public calls of the detector and the            *)
(* application loop, and the detection task (core 0) that                  *)
(* startListening() creates.  The two interleave at every access to a      *)
(* variable they share.                                                    *)
(***************************************************************************)
EXTENDS Integers, Sequences, FiniteSets, TLC

(***************************************************************************)
(* uint32_t arithmetic.  millis(), _lastDetectionTime and                  *)
(* _patternStartTime are 32-bit unsigned; a value v is held as the pair of *)
(* its 16-bit halves, v = hi * 2^16 + lo, and sums and differences are     *)
(* taken modulo 2^32.                                                      *)
(***************************************************************************)
Half == 2^16

U32(h, l) == [hi |-> h, lo |-> l]

U32Small(n) == U32(n \div Half, n % Half)

U32Add(a, b) ==
    LET l == a.lo + b.lo
        h == a.hi + b.hi + (l \div Half)
    IN  U32(h % Half, l % Half)

\* as U32Sub, with a difference below zero taken as 0 instead of wrapping
U32SubNoWrap(a, b) ==
    IF a.hi < b.hi \/ (a.hi = b.hi /\ a.lo < b.lo)
    THEN U32(0, 0)
    ELSE LET borrow == IF a.lo < b.lo THEN 1 ELSE 0
         IN  U32(a.hi - b.hi - borrow, a.lo + borrow * Half - b.lo)

U32Sub(a, b) ==
    LET borrow == IF a.lo < b.lo THEN 1 ELSE 0
        l == a.lo + borrow * Half - b.lo
        h == a.hi - b.hi - borrow
    IN  U32(h % Half, l)

\* a >= n, a > n, a <= n for a uint32 a and a constant 0 <= n < 2^16
U32Ge(a, n) == a.hi > 0 \/ a.lo >= n

U32Gt(a, n) == a.hi > 0 \/ a.lo > n

\* as U32Le, with a < n in place of a <= n
U32LeStrict(a, n) == a.hi = 0 /\ a.lo < n

U32Le(a, n) == a.hi = 0 /\ a.lo <= n

(***************************************************************************)
(* IEEE-754 binary32 arithmetic, round to nearest even, on finite values.  *)
(* A float is [neg, m, e] with value (-1)^neg * m * 2^e, where either      *)
(* m = 0 or 2^23 <= m < 2^24.  Sums, differences and quotients are taken   *)
(* with three extra low bits (guard, round, sticky) and then rounded, as   *)
(* the FPU does for `float` operands.  Only operands >= 0 reach the        *)
(* arithmetic: setSensitivity clamps its argument first.                   *)
(***************************************************************************)
P23 == 2^23

P24 == 2^24

P26 == 2^26

P27 == 2^27

Flt(m, e) == [neg |-> FALSE, m |-> m, e |-> e]

FNeg(m, e) == [neg |-> TRUE, m |-> m, e |-> e]

FZero == Flt(0, 0)

FOne == Flt(P23, -23)

\* x shifted right by n bits; the bits shifted out are or-ed into bit 0
ShiftRightSticky(x, n) ==
    IF n = 0 THEN x
    ELSE IF n > 28 THEN (IF x = 0 THEN 0 ELSE 1)
    ELSE LET q == x \div (2^n)
             r == x % (2^n)
         IN  IF r = 0 \/ q % 2 = 1 THEN q ELSE q + 1

\* d in [2^26, 2^27) carries 24 significand bits and 3 rounding bits;
\* the value is d * 2^ex
RoundPack(d, ex) ==
    LET m   == d \div 8
        rem == d % 8
        up  == rem > 4 \/ (rem = 4 /\ m % 2 = 1)
        m2  == IF up THEN m + 1 ELSE m
    IN  IF m2 = P24 THEN Flt(P23, ex + 4) ELSE Flt(m2, ex + 3)

RECURSIVE NormUp(_, _)
NormUp(d, ex) == IF d >= P26 THEN RoundPack(d, ex) ELSE NormUp(2 * d, ex - 1)

\* a + b for a, b >= 0
FAdd(a, b) ==
    IF a.m = 0 THEN b
    ELSE IF b.m = 0 THEN a
    ELSE LET big   == IF a.e >= b.e THEN a ELSE b
             small == IF a.e >= b.e THEN b ELSE a
             s     == big.m * 8 + ShiftRightSticky(small.m * 8, big.e - small.e)
         IN  IF s >= P27
             THEN RoundPack(ShiftRightSticky(s, 1), big.e - 2)
             ELSE RoundPack(s, big.e - 3)

\* a - b for a >= b >= 0
FSub(a, b) ==
    IF b.m = 0 THEN a
    ELSE LET d == a.m * 8 - ShiftRightSticky(b.m * 8, a.e - b.e)
         IN  IF d = 0 THEN FZero ELSE NormUp(d, a.e - 3)

\* n quotient bits of r / d by restoring division; <<quotient, remainder>>
RECURSIVE DivBits(_, _, _, _)
DivBits(r, d, n, q) ==
    IF n = 0 THEN <<q, r>>
    ELSE IF r >= d THEN DivBits((r - d) * 2, d, n - 1, 2 * q + 1)
    ELSE DivBits(r * 2, d, n - 1, 2 * q)

\* a / b for a >= 0, b > 0
FDiv(a, b) ==
    IF a.m = 0 THEN FZero
    ELSE LET n  == IF a.m >= b.m THEN 27 ELSE 28
             qr == DivBits(a.m, b.m, n, 0)
             q  == IF qr[2] # 0 /\ qr[1] % 2 = 0 THEN qr[1] + 1 ELSE qr[1]
         IN  RoundPack(q, a.e - b.e - (n - 1))

\* a * b for a, b >= 0; the 48-bit product is formed from 12-bit halves
FMul(a, b) ==
    IF a.m = 0 \/ b.m = 0 THEN FZero
    ELSE LET a1 == a.m \div 4096
             a0 == a.m % 4096
             b1 == b.m \div 4096
             b0 == b.m % 4096
             d0 == a0 * b0
             d1 == a1 * b0 + a0 * b1 + (d0 \div 4096)
             h  == a1 * b1 + (d1 \div 4096)
             l  == (d1 % 4096) * 4096 + (d0 % 4096)
             k  == IF h >= P23 THEN 21 ELSE 20
             d  == h * (2^(24 - k)) + (l \div (2^k))
             st == IF l % (2^k) # 0 /\ d % 2 = 0 THEN d + 1 ELSE d
         IN  RoundPack(st, a.e + b.e + k)

\* as FLt, with the operands exchanged
FLtExchanged(a, b) ==
    IF b.m = 0 THEN a.m > 0 /\ ~a.neg
    ELSE IF a.m = 0 THEN b.neg
    ELSE IF a.neg # b.neg THEN b.neg
    ELSE IF b.neg THEN a.e < b.e \/ (a.e = b.e /\ a.m < b.m)
    ELSE b.e < a.e \/ (b.e = a.e /\ b.m < a.m)

\* a < b on signed floats
FLt(a, b) ==
    IF a.m = 0 THEN b.m > 0 /\ ~b.neg
    ELSE IF b.m = 0 THEN a.neg
    ELSE IF a.neg # b.neg THEN a.neg
    ELSE IF a.neg THEN b.e < a.e \/ (b.e = a.e /\ b.m < a.m)
    ELSE a.e < b.e \/ (a.e = b.e /\ a.m < b.m)

\* the float of an integer 0 <= n < 2^24 (exact)
RECURSIVE FNormInt(_, _)
FNormInt(m, e) == IF m >= P23 THEN Flt(m, e) ELSE FNormInt(2 * m, e - 1)

FFromInt(n) == IF n = 0 THEN FZero ELSE FNormInt(n, 0)

(***************************************************************************)
(* Program constants.                                                      *)
(***************************************************************************)
FRAME_SIZE == 512

HISTORY_SIZE == 32

DETECTION_COOLDOWN_MS == 2000

\* config.h: the base thresholds (500.0f and 0.6f)
WAKE_WORD_ENERGY_THRESHOLD == Flt(16384000, -15)

WAKE_WORD_TRIGGER_THRESHOLD == Flt(10066330, -24)

\* the float literals of detectWakePattern: 1.5f, 0.8f, 0.3f, 0.5f, 0.02f, 0.2f
F1_5 == Flt(12582912, -23)

F0_8 == Flt(13421773, -24)

\* as F0_3, with 0.1f as the share of the threshold below which RISING_EDGE
\* gives up
F0_3Lowered == Flt(13421773, -27)

F0_3 == Flt(10066330, -25)

F0_5 == Flt(8388608, -24)

F0_02 == Flt(10737418, -29)

\* as F0_2, with 0.5f as the upper limit of a voiced frame's rate
F0_2Raised == Flt(8388608, -24)

F0_2 == Flt(13421773, -26)

(***************************************************************************)
(* Bounds of the model.                                                    *)
(***************************************************************************)
\* frames the microphone delivers to the detection task in one run: of a
\* listening session, and of a run that exercises the life cycle
MaxFrames == 18

MaxLifeFrames == 3

\* clock ticks in one run
MaxTicks == 4

\* milliseconds per clock tick
TickMs == 1000

\* frames the microphone delivers to the detection task, clock ticks, and
\* reads that fill the recorder's buffer, in one run of the assistant
MaxAppFrames == 9

MaxAppTicks == 6

MaxRecReads == 2

\* frames the microphone delivers while the sensitivity is being tuned
MaxTuneFrames == 3

\* idle periods of almost 2^32 ms in one run
MaxLongIdles == 1

\* the two-run check: frames per run, and the longer of the two spacings
MaxTwinFrames == 9

TwinStepMs == 200

\* frames of the run whose pattern attempts are timed
MaxAttemptFrames == 14

\* frames that an attempt may take after its 1500 ms to be back in IDLE
AttemptTailFrames == 3

\* frames and ticks of the assistant whose recordings nobody ends
MaxListenFrames == 1

MaxListenTicks == 3

\* samples of a frame given to the feature extractors
MaxSamples == 4

\* frames of the two runs of which one gets frames without samples
MaxInvalidFrames == 9

\* frames of the session over a wake word's frames
MaxSeqFrames == 8

\* frames and ticks of the run around one detected wake word
MaxCountFrames == 8

MaxCountTicks == 3

\* the session over wake words of several lengths: frames, steps of time and
\* the length of a step in ms
MaxWindowFrames == 9

MaxWindowTicks == 6

WindowStepMs == 300

\* frames of the session with every outcome of a read
MaxReadFrames == 9

\* frames of a session over silence or noise: one more than the history holds
MaxRunFrames == 33

(***************************************************************************)
(* Microphone input.  A frame is the pair of features of FRAME_SIZE        *)
(* samples: energy, its RMS amplitude (an integer here), and zc, the       *)
(* number of sign changes among its adjacent samples.                      *)
(***************************************************************************)
Frame(en, z) == [energy |-> en, zc |-> z]

Loud == Frame(1000, 40)

Quiet == Frame(0, 0)

Noise == Frame(1000, 150)

\* an utterance of six voiced frames and its decay, over and over
WakeScript == <<Loud, Loud, Loud, Loud, Loud, Loud, Quiet, Quiet, Quiet>>

\* a click, broadband noise, then an utterance
MixedScript == <<Loud, Quiet, Noise, Noise, Quiet, Quiet, Loud, Loud, Loud,
                 Loud, Loud, Loud, Quiet, Quiet, Quiet>>

MicScripts == {WakeScript, MixedScript}

PatternStates == {"IDLE", "RISING_EDGE", "SUSTAINED", "FALLING_EDGE", "DETECTED"}

VARIABLES
    \* WakeWordDetector fields
    initialized, listening, enabled, callbackSet,
    taskHandle,         \* _taskHandle # nullptr
    taskRunning,
    buffers,            \* which of _audioBuffer, _energyHistory, _zcrHistory are non-null
    energyHistory, zcrHistory, historyIndex,
    sensitivity, energyThreshold, triggerThreshold,
    patternState, patternStartTime, sustainedFrames,
    detectionCount, lastDetectionTime,
    \* the detection task: "none" when no such task exists, else where it is
    taskPc,
    \* the value of _energyThreshold that the task's evaluation of
    \* detectWakePattern has used in its latest comparison
    thresholdRead,
    \* two runs of the pattern matcher over the same frames, side by side
    runs,
    \* how the task's latest i2s_read() has ended, where the run keeps track
    lastRead,
    \* the startListening() calls the assistant has made since its state last
    \* changed to IDLE
    startCalls,
    \* ghost: the latest call of the two feature extractors, its frame and
    \* what they returned
    features,
    \* ghost: wakeWordTriggered was already set when the assistant last entered
    \* IDLE
    staleTrigger,
    \* the I2S driver of the microphone port
    drvInstalled, drvStarted,
    \* the foreground: where it is, and where a nested stopListening() returns to
    fg, fgRet,
    \* the device has panicked
    crashed,
    \* environment: millis(), ticks so far, the microphone script and the
    \* number of frames read from it
    now, ticks, mic, micPos,
    \* history of the run: the last completed foreground call and the result
    \* of its configureI2S(); the time since the last accepted detection and
    \* since the last true return of detectWakePattern (-1: none yet, and
    \* saturating at SinceCap); ghost: the time that has really passed since
    \* the last accepted detection and since the last rising edge; the last
    \* two true returns
    lastCall, cfgResult, sinceAccept, trueSince, sinceMatch, matchLog,
    \* the sensitivity and thresholds before the last setSensitivity(), and
    \* the number of long idle periods so far
    prevSetting, longIdles,
    \* main.cpp: the assistant state and the flag the callback sets
    currentState, wakeWordTriggered,
    \* the static errorTime of loop()
    errorTime,
    \* AudioInput: _initialized, _recording, _bufferPos (in frames),
    \* _avgLevel > VAD_THRESHOLD, _lastSoundTime
    audioInit, recording, bufferPos, avgLoud, lastSoundTime

\* what the detection task leaves alone in main.cpp and AudioInput
appRest == <<currentState, errorTime, audioInit, recording, bufferPos, avgLoud,
             lastSoundTime>>

appVars == <<appRest, wakeWordTriggered>>

detVars == <<initialized, listening, enabled, callbackSet, taskHandle,
             taskRunning, buffers, energyHistory, zcrHistory, historyIndex,
             sensitivity, energyThreshold, triggerThreshold, patternState,
             patternStartTime, sustainedFrames, detectionCount,
             lastDetectionTime>>

matcherVars == <<energyHistory, zcrHistory, historyIndex, patternState,
                 patternStartTime, sustainedFrames, detectionCount,
                 lastDetectionTime>>

vars == <<detVars, taskPc, drvInstalled, drvStarted, fg, fgRet, crashed,
          now, ticks, mic, micPos, lastCall, cfgResult, sinceAccept, trueSince, sinceMatch,
          matchLog, prevSetting, longIdles, appVars, thresholdRead, runs, lastRead,
          startCalls, features, staleTrigger>>

\* before the first call of the feature extractors
NoFeatures == [called |-> FALSE, samples |-> <<>>, energy |-> FZero, zcr |-> FZero]

ZeroHistory == [i \in 0..(HISTORY_SIZE - 1) |-> 0]

NoBuffers == [b \in {"audio", "energy", "zcr"} |-> FALSE]

AllBuffers == [b \in {"audio", "energy", "zcr"} |-> TRUE]

\* calls: the number of setSensitivity() calls so far, counted up to 2; arg:
\* the argument of the latest call
NoSetting == [calls |-> 0, sensitivity |-> FZero, energy |-> FZero,
              trigger |-> FZero, arg |-> FZero]

\* a matcher as startListening() leaves it, with millis() reading clock;
\* fired is the set of frame indices on which it has returned true
StartRun(clock) ==
    [clock |-> clock, eh |-> ZeroHistory, zh |-> ZeroHistory, idx |-> 0,
     ps |-> "IDLE", pst |-> U32Small(0), sf |-> 0, fired |-> {}]

\* the two runs before their first frame: run a at millis() = 0, run b
\* 600 ms before millis() wraps
TwinStart ==
    [a |-> StartRun(U32Small(0)), b |-> StartRun(U32(Half - 1, Half - 600)),
     n |-> 0, sameSpacing |-> TRUE]

\* a time span in ms, exact: hi is not reduced modulo 2^16, so that a span of
\* 2^32 ms or more has hi >= Half; hi = -1 when the span has not begun
NoSpan == [hi |-> 0 - 1, lo |-> 0]

ZeroSpan == [hi |-> 0, lo |-> 0]

SpanAdd(g, ms) ==
    IF g.hi < 0 THEN g
    ELSE LET l == g.lo + ms.lo
         IN  [hi |-> g.hi + ms.hi + (l \div Half), lo |-> l % Half]

NoneSince == [accept |-> NoSpan, rise |-> NoSpan]

\* `ms` (a uint32) later
Elapse(ms) ==
    [accept |-> SpanAdd(trueSince.accept, ms), rise |-> SpanAdd(trueSince.rise, ms)]

\* the ghost clocks saturate just above the cooldown
SinceCap == DETECTION_COOLDOWN_MS + TickMs

Advance(since, ms) ==
    IF since = -1 THEN -1
    ELSE IF since + ms > SinceCap THEN SinceCap ELSE since + ms

(***************************************************************************)
(* The pattern matcher.                                                    *)
(***************************************************************************)
RECURSIVE SumTo(_, _)
SumTo(h, n) == IF n = 0 THEN 0 ELSE h[n - 1] + SumTo(h, n - 1)

\* as ZcrOf, with the division by the sample count left out
ZcrOfCrossings(zc) == FFromInt(zc)

\* the zero-crossing rate of a frame with zc crossings: (float)crossings / count
ZcrOf(zc) == FDiv(FFromInt(zc), FFromInt(FRAME_SIZE))

\* as DetectWakePattern, with DETECTED taken as IDLE is: a rising frame right
\* after a detection starts the next pattern
DetectWakePatternRestarting(eh, zh, idx, ps, pst, sf, thr, t) ==
    LET avgEnergy     == FDiv(FFromInt(SumTo(eh, HISTORY_SIZE)), FFromInt(HISTORY_SIZE))
        currentIdx    == (idx + HISTORY_SIZE - 1) % HISTORY_SIZE
        currentEnergy == FFromInt(eh[currentIdx])
        currentZcr    == ZcrOf(zh[currentIdx])
        elapsed       == U32Sub(t, pst)
        same          == [ps |-> ps, pst |-> pst, sf |-> sf, ret |-> FALSE]
    IN  CASE ps = "IDLE" ->
               IF /\ FLt(thr, currentEnergy)
                  /\ FLt(FMul(avgEnergy, F1_5), currentEnergy)
               THEN [ps |-> "RISING_EDGE", pst |-> t, sf |-> 0, ret |-> FALSE]
               ELSE same
          [] ps = "RISING_EDGE" ->
               IF /\ FLt(FMul(thr, F0_8), currentEnergy)
                  /\ FLt(F0_02, currentZcr)
                  /\ FLt(currentZcr, F0_2)
               THEN [same EXCEPT !.sf = sf + 1,
                                 !.ps = IF sf + 1 >= 3 THEN "SUSTAINED" ELSE ps]
               ELSE IF FLt(currentEnergy, FMul(thr, F0_3))
               THEN [same EXCEPT !.ps = "IDLE"]
               ELSE same
          [] ps = "SUSTAINED" ->
               IF FLt(FMul(thr, F0_5), currentEnergy)
               THEN [same EXCEPT !.sf = sf + 1,
                                 !.ps = IF U32Gt(elapsed, 1500) THEN "IDLE" ELSE ps]
               ELSE [same EXCEPT !.ps = "FALLING_EDGE"]
          [] ps = "FALLING_EDGE" ->
               IF U32Ge(elapsed, 300) /\ U32Le(elapsed, 1200) /\ sf >= 5
               THEN [same EXCEPT !.ps = "DETECTED", !.ret = TRUE]
               ELSE [same EXCEPT !.ps = "IDLE"]
          [] ps = "DETECTED" ->
               IF /\ FLt(thr, currentEnergy)
                  /\ FLt(FMul(avgEnergy, F1_5), currentEnergy)
               THEN [ps |-> "RISING_EDGE", pst |-> t, sf |-> 0, ret |-> FALSE]
               ELSE [same EXCEPT !.ps = "IDLE"]

\* detectWakePattern() on the history eh, zh with write index idx, in pattern
\* state ps with start time pst and sf sustained frames, at millis() = t.
\* The energies are integers, so the float sum of the history is exact.
DetectWakePattern(eh, zh, idx, ps, pst, sf, thr, t) ==
    LET avgEnergy     == FDiv(FFromInt(SumTo(eh, HISTORY_SIZE)), FFromInt(HISTORY_SIZE))
        currentIdx    == (idx + HISTORY_SIZE - 1) % HISTORY_SIZE
        currentEnergy == FFromInt(eh[currentIdx])
        currentZcr    == ZcrOf(zh[currentIdx])
        elapsed       == U32Sub(t, pst)
        same          == [ps |-> ps, pst |-> pst, sf |-> sf, ret |-> FALSE]
    IN  CASE ps = "IDLE" ->
               IF /\ FLt(thr, currentEnergy)
                  /\ FLt(FMul(avgEnergy, F1_5), currentEnergy)
               THEN [ps |-> "RISING_EDGE", pst |-> t, sf |-> 0, ret |-> FALSE]
               ELSE same
          [] ps = "RISING_EDGE" ->
               IF /\ FLt(FMul(thr, F0_8), currentEnergy)
                  /\ FLt(F0_02, currentZcr)
                  /\ FLt(currentZcr, F0_2)
               THEN [same EXCEPT !.sf = sf + 1,
                                 !.ps = IF sf + 1 >= 3 THEN "SUSTAINED" ELSE ps]
               ELSE IF FLt(currentEnergy, FMul(thr, F0_3))
               THEN [same EXCEPT !.ps = "IDLE"]
               ELSE same
          [] ps = "SUSTAINED" ->
               IF FLt(FMul(thr, F0_5), currentEnergy)
               THEN [same EXCEPT !.sf = sf + 1,
                                 !.ps = IF U32Gt(elapsed, 1500) THEN "IDLE" ELSE ps]
               ELSE [same EXCEPT !.ps = "FALLING_EDGE"]
          [] ps = "FALLING_EDGE" ->
               IF U32Ge(elapsed, 300) /\ U32Le(elapsed, 1200) /\ sf >= 5
               THEN [same EXCEPT !.ps = "DETECTED", !.ret = TRUE]
               ELSE [same EXCEPT !.ps = "IDLE"]
          [] ps = "DETECTED" ->
               [same EXCEPT !.ps = "IDLE"]

\* as CooldownOver, with no cooldown at all
CooldownNever(t, last) == TRUE

\* as CooldownOver, with the subtraction of the last detection time forgotten
CooldownOverNoLast(t, last) == U32Ge(t, DETECTION_COOLDOWN_MS)

\* the cooldown test of processAudioFrame at millis() = t
CooldownOver(t, last) == U32Ge(U32Sub(t, last), DETECTION_COOLDOWN_MS)

\* processAudioFrame(): store the features, run the matcher, and on a match
\* outside the cooldown count the detection and invoke the callback
ProcessAudioFrame(f) ==
    LET eh     == [energyHistory EXCEPT ![historyIndex] = f.energy]
        zh     == [zcrHistory EXCEPT ![historyIndex] = f.zc]
        idx    == (historyIndex + 1) % HISTORY_SIZE
        r      == DetectWakePattern(eh, zh, idx, patternState, patternStartTime,
                                    sustainedFrames, energyThreshold, now)
        accept == r.ret /\ CooldownOver(now, lastDetectionTime)
        entry  == [called |-> accept /\ callbackSet, cb |-> callbackSet,
                   gap |-> sinceMatch]
    IN  /\ energyHistory' = eh
        /\ zcrHistory' = zh
        /\ historyIndex' = idx
        /\ patternState' = r.ps
        /\ patternStartTime' = r.pst
        /\ sustainedFrames' = r.sf
        /\ lastDetectionTime' = IF accept THEN now ELSE lastDetectionTime
        /\ detectionCount' = IF accept THEN detectionCount + 1 ELSE detectionCount
        /\ sinceAccept' = IF accept THEN 0 ELSE sinceAccept
        /\ trueSince' = [accept |-> IF accept THEN ZeroSpan ELSE trueSince.accept,
                         rise |-> IF patternState = "IDLE" /\ r.ps = "RISING_EDGE"
                                  THEN ZeroSpan ELSE trueSince.rise]
        /\ sinceMatch' = IF r.ret THEN 0 ELSE sinceMatch
        \* the registered callback is onWakeWordDetected() of main.cpp
        /\ wakeWordTriggered' = (wakeWordTriggered \/ (accept /\ callbackSet))
        /\ matchLog' = IF ~r.ret THEN matchLog
                       ELSE IF matchLog = <<>> THEN <<entry>>
                       ELSE <<matchLog[Len(matchLog)], entry>>

(***************************************************************************)
(* The foreground calls of the detector.  A call that waits or that the    *)
(* detection task can overtake takes several steps; fg says where the      *)
(* foreground is, and fgRet where a nested call returns to.                *)
(***************************************************************************)
\* the call `call` returns to `ret`; "idle" is the caller of the public API
Return(ret, call) ==
    /\ fg' = ret
    /\ fgRet' = "idle"
    /\ lastCall' = IF ret = "idle" THEN call ELSE lastCall

\* as BeginBody, without the early return of an initialized detector
BeginBodyReallocating(got) ==
    IF got = AllBuffers
    THEN /\ buffers' = AllBuffers
         /\ energyHistory' = ZeroHistory
         /\ zcrHistory' = ZeroHistory
         /\ initialized' = TRUE
    ELSE /\ buffers' = NoBuffers
         /\ initialized' = FALSE
         /\ UNCHANGED <<energyHistory, zcrHistory>>

\* the body of begin(): `got` says which of the three allocations succeed
BeginBody(got) ==
    IF initialized
    THEN UNCHANGED <<buffers, energyHistory, zcrHistory, initialized>>
    ELSE IF got = AllBuffers
    THEN /\ buffers' = AllBuffers
         /\ energyHistory' = ZeroHistory
         /\ zcrHistory' = ZeroHistory
         /\ initialized' = TRUE
    ELSE \* end(): stopListening() returns at once, the buffers are freed
         /\ buffers' = NoBuffers
         /\ initialized' = FALSE
         /\ UNCHANGED <<energyHistory, zcrHistory>>

\* what begin() returns
BeginReturns(got) == initialized \/ got = AllBuffers

Begin(got) ==
    /\ fg = "idle" /\ ~crashed
    /\ lastCall' = IF BeginReturns(got) THEN "begin_true" ELSE "begin_false"
    /\ BeginBody(got)
    /\ UNCHANGED <<listening, enabled, callbackSet, taskHandle, taskRunning,
                   historyIndex, sensitivity, energyThreshold, triggerThreshold,
                   patternState, patternStartTime, sustainedFrames,
                   detectionCount, lastDetectionTime, taskPc, drvInstalled,
                   drvStarted, fg, fgRet, crashed, now, ticks, mic, micPos,
                   cfgResult, sinceAccept, trueSince, sinceMatch, matchLog,
                   prevSetting, longIdles, appVars,
                   thresholdRead, runs, lastRead, startCalls, features, staleTrigger>>

\* the part of end() after stopListening(): free the buffers
EndFree ==
    /\ buffers' = NoBuffers
    /\ initialized' = FALSE

\* releaseI2S() and the last lines of stopListening()
StopTail ==
    /\ drvStarted' = FALSE
    /\ listening' = FALSE

\* stopListening() up to its wait for the task; the rest of the caller runs
\* at `ret`.  Without a task handle there is no wait.
StopEnter(ret, call) ==
    /\ listening
    /\ taskRunning' = FALSE
    /\ IF taskHandle
       THEN /\ fg' = "stop_wait"
            /\ fgRet' = ret
            /\ UNCHANGED <<drvStarted, listening, lastCall>>
       ELSE /\ StopTail
            /\ Return(ret, call)

StopListening ==
    /\ fg = "idle" /\ ~crashed
    /\ IF ~listening
       THEN /\ lastCall' = "stopListening"
            /\ UNCHANGED <<taskRunning, drvStarted, listening, fg, fgRet>>
       ELSE StopEnter("idle", "stopListening")
    /\ UNCHANGED <<initialized, enabled, callbackSet, taskHandle, buffers,
                   energyHistory, zcrHistory, historyIndex, sensitivity,
                   energyThreshold, triggerThreshold, patternState,
                   patternStartTime, sustainedFrames, detectionCount,
                   lastDetectionTime, taskPc, drvInstalled, crashed, now,
                   ticks, mic, micPos, cfgResult, sinceAccept, trueSince, sinceMatch,
                   matchLog,
                   prevSetting, longIdles, appVars,
                   thresholdRead, runs, lastRead, startCalls, features, staleTrigger>>

\* as StopDelete, but only clearing the handle and the listening flag: the
\* task is not deleted and the port is not released
StopDeleteReturningOnly ==
    /\ fg = "stop_wait" /\ ~crashed
    /\ taskHandle' = FALSE
    /\ listening' = FALSE
    /\ UNCHANGED drvStarted
    /\ Return(fgRet, "stopListening")
    /\ UNCHANGED <<initialized, enabled, callbackSet, taskRunning, buffers,
                   energyHistory, zcrHistory, historyIndex, sensitivity,
                   energyThreshold, triggerThreshold, patternState,
                   patternStartTime, sustainedFrames, detectionCount,
                   lastDetectionTime, taskPc, crashed, drvInstalled, now, ticks,
                   mic, micPos, cfgResult, sinceAccept, trueSince, sinceMatch, matchLog,
                   prevSetting, longIdles, appVars,
                   thresholdRead, runs, lastRead, startCalls, features, staleTrigger>>

\* as StopDelete, but trusting the task to have seen the stop flag by now:
\* the handle is dropped without vTaskDelete()
StopDeleteWithoutKill ==
    /\ fg = "stop_wait" /\ ~crashed
    /\ taskHandle' = FALSE
    /\ StopTail
    /\ Return(fgRet, "stopListening")
    /\ UNCHANGED <<initialized, enabled, callbackSet, taskRunning, buffers,
                   energyHistory, zcrHistory, historyIndex, sensitivity,
                   energyThreshold, triggerThreshold, patternState,
                   patternStartTime, sustainedFrames, detectionCount,
                   lastDetectionTime, taskPc, crashed, drvInstalled, now, ticks,
                   mic, micPos, cfgResult, sinceAccept, trueSince, sinceMatch, matchLog,
                   prevSetting, longIdles, appVars,
                   thresholdRead, runs, lastRead, startCalls, features, staleTrigger>>

\* stopListening() after its 100 ms wait: vTaskDelete(_taskHandle), then
\* releaseI2S().  Deleting a task that has already deleted itself uses a
\* freed task control block: the call may go unnoticed or bring the device
\* down.
StopDelete ==
    /\ fg = "stop_wait" /\ ~crashed
    /\ \E panic \in (IF taskPc = "none" THEN BOOLEAN ELSE {FALSE}) :
         IF panic
         THEN /\ crashed' = TRUE
              /\ UNCHANGED <<taskPc, taskHandle, drvStarted, listening, fg,
                             fgRet, lastCall>>
         ELSE /\ taskPc' = "none"
              /\ taskHandle' = FALSE
              /\ StopTail
              /\ Return(fgRet, "stopListening")
              /\ UNCHANGED crashed
    /\ UNCHANGED <<initialized, enabled, callbackSet, taskRunning, buffers,
                   energyHistory, zcrHistory, historyIndex, sensitivity,
                   energyThreshold, triggerThreshold, patternState,
                   patternStartTime, sustainedFrames, detectionCount,
                   lastDetectionTime, drvInstalled, now, ticks, mic, micPos,
                   cfgResult, sinceAccept, trueSince, sinceMatch, matchLog,
                   prevSetting, longIdles, appVars,
                   thresholdRead, runs, lastRead, startCalls, features, staleTrigger>>

\* end(): stopListening(), then free
End ==
    /\ fg = "idle" /\ ~crashed
    /\ IF listening
       THEN /\ StopEnter("end_free", "end")
            /\ UNCHANGED <<buffers, initialized>>
       ELSE /\ EndFree
            /\ lastCall' = "end"
            /\ UNCHANGED <<taskRunning, drvStarted, listening, fg, fgRet>>
    /\ UNCHANGED <<enabled, callbackSet, taskHandle, energyHistory, zcrHistory,
                   historyIndex, sensitivity, energyThreshold, triggerThreshold,
                   patternState, patternStartTime, sustainedFrames,
                   detectionCount, lastDetectionTime, taskPc, drvInstalled,
                   crashed, now, ticks, mic, micPos, cfgResult, sinceAccept, trueSince,
                   sinceMatch, matchLog,
                   prevSetting, longIdles, appVars,
                   thresholdRead, runs, lastRead, startCalls, features, staleTrigger>>

EndAfterStop ==
    /\ fg = "end_free" /\ ~crashed
    /\ EndFree
    /\ Return("idle", "end")
    /\ UNCHANGED <<listening, enabled, callbackSet, taskHandle, taskRunning,
                   energyHistory, zcrHistory, historyIndex, sensitivity,
                   energyThreshold, triggerThreshold, patternState,
                   patternStartTime, sustainedFrames, detectionCount,
                   lastDetectionTime, taskPc, drvInstalled, drvStarted, crashed,
                   now, ticks, mic, micPos, cfgResult, sinceAccept, trueSince, sinceMatch,
                   matchLog,
                   prevSetting, longIdles, appVars,
                   thresholdRead, runs, lastRead, startCalls, features, staleTrigger>>

\* i2s_driver_install() on the microphone port: ESP_ERR_INVALID_STATE
\* ("busy") when a driver is installed already, else success or an error
InstallResults == IF drvInstalled THEN {"busy"} ELSE {"ok", "fail"}

\* as StartRefused, without the test of _initialized
StartRefusedIgnoringInitialized == listening \/ ~enabled

\* as StartRefused, without the test of _enabled
StartRefusedIgnoringEnabled == ~initialized \/ listening

\* the early return of startListening()
StartRefused == ~initialized \/ listening \/ ~enabled

\* the result of configureI2S(), given those of i2s_driver_install() and
\* i2s_set_pin(): an installed driver ("busy") is tolerated
ConfigureI2S(inst, pin) ==
    IF inst = "fail" THEN "install_fail"
    ELSE IF pin = "fail" THEN "pin_fail"
    ELSE "ok"

\* as ConfigureFailed, with a failed i2s_set_pin() let through
ConfigureFailedOnInstallOnly(res) == res = "install_fail"

\* if (!configureI2S()) of startListening(), res being ConfigureI2S's result
ConfigureFailed(res) == res # "ok"

\* as SessionReset, with the feature history left as the last session had it
SessionResetKeepingHistory ==
    /\ patternState' = "IDLE"
    /\ historyIndex' = 0
    /\ sustainedFrames' = 0
    /\ UNCHANGED <<energyHistory, zcrHistory,
                   thresholdRead, runs, lastRead, startCalls, features, staleTrigger>>

\* startListening(): "Reset detection state"
SessionReset ==
    /\ patternState' = "IDLE"
    /\ historyIndex' = 0
    /\ sustainedFrames' = 0
    /\ energyHistory' = ZeroHistory
    /\ zcrHistory' = ZeroHistory

\* startListening() up to and including xTaskCreatePinnedToCore(); the new
\* task runs from here on.  inst and pin are the results of
\* i2s_driver_install() and i2s_set_pin(), created that of the task creation
\* (which the code does not look at).
StartEnter(ret, inst, pin, created) ==
    IF StartRefused
    THEN /\ cfgResult' = "none"
         /\ Return(ret, "startListening")
         /\ UNCHANGED <<drvInstalled, drvStarted, patternState, historyIndex,
                        sustainedFrames, energyHistory, zcrHistory, taskRunning,
                        taskHandle, taskPc>>
    ELSE /\ cfgResult' = ConfigureI2S(inst, pin)
         \* a successful install leaves the port started
         /\ drvInstalled' = (drvInstalled \/ inst = "ok")
         /\ drvStarted' = (drvStarted \/ inst = "ok")
         /\ IF ConfigureFailed(ConfigureI2S(inst, pin))
            THEN /\ Return(ret, "startListening")
                 /\ UNCHANGED <<patternState, historyIndex, sustainedFrames,
                                energyHistory, zcrHistory, taskRunning,
                                taskHandle, taskPc>>
            ELSE /\ SessionReset
                 /\ taskRunning' = TRUE
                 /\ taskPc' = IF created THEN "check" ELSE "none"
                 /\ taskHandle' = (created \/ taskHandle)
                 /\ fg' = "start_created"
                 /\ fgRet' = ret
                 /\ UNCHANGED lastCall

StartListening ==
    /\ fg = "idle" /\ ~crashed
    /\ \E inst \in InstallResults, pin \in {"ok", "fail"}, created \in BOOLEAN :
         StartEnter("idle", inst, pin, created)
    /\ UNCHANGED <<initialized, listening, enabled, callbackSet, buffers,
                   sensitivity, energyThreshold, triggerThreshold,
                   patternStartTime, detectionCount, lastDetectionTime, crashed,
                   now, ticks, mic, micPos, sinceAccept, trueSince, sinceMatch, matchLog,
                   prevSetting, longIdles, appVars,
                   thresholdRead, runs, lastRead, startCalls, features, staleTrigger>>

\* the last statement of startListening(): _listening = true
StartFinish ==
    /\ fg = "start_created" /\ ~crashed
    /\ listening' = TRUE
    /\ Return(fgRet, "startListening")
    /\ UNCHANGED <<initialized, enabled, callbackSet, taskHandle, taskRunning,
                   buffers, energyHistory, zcrHistory, historyIndex, sensitivity,
                   energyThreshold, triggerThreshold, patternState,
                   patternStartTime, sustainedFrames, detectionCount,
                   lastDetectionTime, taskPc, drvInstalled, drvStarted, crashed,
                   now, ticks, mic, micPos, cfgResult, sinceAccept, trueSince, sinceMatch,
                   matchLog,
                   prevSetting, longIdles, appVars,
                   thresholdRead, runs, lastRead, startCalls, features, staleTrigger>>

SetEnabled(b) ==
    /\ fg = "idle" /\ ~crashed
    /\ enabled' = b
    /\ lastCall' = "other"
    /\ UNCHANGED <<initialized, listening, callbackSet, taskHandle, taskRunning,
                   buffers, energyHistory, zcrHistory, historyIndex, sensitivity,
                   energyThreshold, triggerThreshold, patternState,
                   patternStartTime, sustainedFrames, detectionCount,
                   lastDetectionTime, taskPc, drvInstalled, drvStarted, fg,
                   fgRet, crashed, now, ticks, mic, micPos, cfgResult,
                   sinceAccept, trueSince, sinceMatch, matchLog,
                   prevSetting, longIdles, appVars,
                   thresholdRead, runs, lastRead, startCalls, features, staleTrigger>>

\* setCallback(fn): c says whether fn is a function or nullptr
SetCallback(c) ==
    /\ fg = "idle" /\ ~crashed
    /\ callbackSet' = c
    /\ lastCall' = "other"
    /\ UNCHANGED <<initialized, listening, enabled, taskHandle, taskRunning,
                   buffers, energyHistory, zcrHistory, historyIndex, sensitivity,
                   energyThreshold, triggerThreshold, patternState,
                   patternStartTime, sustainedFrames, detectionCount,
                   lastDetectionTime, taskPc, drvInstalled, drvStarted, fg,
                   fgRet, crashed, now, ticks, mic, micPos, cfgResult,
                   sinceAccept, trueSince, sinceMatch, matchLog,
                   prevSetting, longIdles, appVars,
                   thresholdRead, runs, lastRead, startCalls, features, staleTrigger>>

\* constrain(x, 0.0f, 1.0f)
Constrain01(x) ==
    IF FLt(x, FZero) THEN FZero ELSE IF FLt(FOne, x) THEN FOne ELSE x

\* as SensitivityFactor, with the sensitivity added: 1.0f + _sensitivity
SensitivityFactorRising(s) == FAdd(FOne, s)

\* factor = 1.0f + (1.0f - _sensitivity), for a sensitivity s in [0, 1]
SensitivityFactor(s) == FAdd(FOne, FSub(FOne, s))

\* the body of setSensitivity(x)
SetSensitivityBody(x) ==
    /\ sensitivity' = Constrain01(x)
    /\ energyThreshold' =
           FDiv(WAKE_WORD_ENERGY_THRESHOLD, SensitivityFactor(Constrain01(x)))
    /\ triggerThreshold' =
           FDiv(WAKE_WORD_TRIGGER_THRESHOLD, SensitivityFactor(Constrain01(x)))
    /\ prevSetting' = [calls |-> IF prevSetting.calls = 0 THEN 1 ELSE 2,
                       sensitivity |-> sensitivity,
                       energy |-> energyThreshold, trigger |-> triggerThreshold,
                       arg |-> x]

SetSensitivity(x) ==
    /\ fg = "idle" /\ ~crashed
    /\ SetSensitivityBody(x)
    /\ lastCall' = "other"
    /\ UNCHANGED <<initialized, listening, enabled, callbackSet, taskHandle,
                   taskRunning, buffers, energyHistory, zcrHistory, historyIndex,
                   patternState, patternStartTime, sustainedFrames,
                   detectionCount, lastDetectionTime, taskPc, drvInstalled,
                   drvStarted, fg, fgRet, crashed, now, ticks, mic, micPos,
                   cfgResult, sinceAccept, trueSince, sinceMatch, matchLog, longIdles,
                   appVars,
                   thresholdRead, runs, lastRead, startCalls, features, staleTrigger>>

(***************************************************************************)
(* The detection task.                                                     *)
(***************************************************************************)
taskFrame == <<initialized, listening, enabled, callbackSet, taskHandle,
               taskRunning, buffers, sensitivity, energyThreshold,
               triggerThreshold, drvInstalled, drvStarted, fg, fgRet, crashed,
               now, ticks, mic, lastCall, cfgResult, prevSetting,
               longIdles, appRest>>

\* while (detector->_taskRunning): enter i2s_read(), or leave the loop and
\* vTaskDelete(NULL)
TaskCheck ==
    /\ taskPc = "check" /\ ~crashed
    /\ taskPc' = IF taskRunning THEN "read" ELSE "none"
    /\ UNCHANGED <<taskFrame, matcherVars, micPos, sinceAccept, trueSince, sinceMatch,
                   matchLog, wakeWordTriggered,
                   thresholdRead, runs, lastRead, startCalls, features, staleTrigger>>

\* i2s_read() returns a frame, which processAudioFrame() consumes; then
\* vTaskDelay(10 ms) and back to the loop test
TaskReadFrame(limit) ==
    /\ taskPc = "read" /\ ~crashed
    /\ drvInstalled /\ drvStarted
    /\ micPos < limit
    /\ ProcessAudioFrame(mic[(micPos % Len(mic)) + 1])
    /\ micPos' = micPos + 1
    /\ taskPc' = "check"
    /\ UNCHANGED <<taskFrame, thresholdRead, runs, lastRead, startCalls, features, staleTrigger>>

\* i2s_read() times out, fails or returns no bytes; then vTaskDelay(10 ms)
TaskReadNothing ==
    /\ taskPc = "read" /\ ~crashed
    /\ taskPc' = "check"
    /\ UNCHANGED <<taskFrame, matcherVars, micPos, sinceAccept, trueSince, sinceMatch,
                   matchLog, wakeWordTriggered,
                   thresholdRead, runs, lastRead, startCalls, features, staleTrigger>>

(***************************************************************************)
(* Time.                                                                   *)
(***************************************************************************)
\* TickMs pass, up to `limit` times
Tick(limit) ==
    /\ ~crashed
    /\ ticks < limit
    /\ ticks' = ticks + 1
    /\ now' = U32Add(now, U32Small(TickMs))
    /\ sinceAccept' = Advance(sinceAccept, TickMs)
    /\ trueSince' = Elapse(U32Small(TickMs))
    /\ sinceMatch' = Advance(sinceMatch, TickMs)
    /\ UNCHANGED <<detVars, taskPc, drvInstalled, drvStarted, fg, fgRet,
                   crashed, mic, micPos, lastCall, cfgResult, matchLog,
                   prevSetting, longIdles, appVars,
                   thresholdRead, runs, lastRead, startCalls, features, staleTrigger>>

\* a long time in which the microphone delivers nothing: 2^32 - TickMs ms,
\* so that a tick later millis() is back where it was
LongIdleSpan == U32Sub(U32Small(0), U32Small(TickMs))

LongIdle ==
    /\ ~crashed
    /\ longIdles < MaxLongIdles
    /\ longIdles' = longIdles + 1
    /\ now' = U32Add(now, LongIdleSpan)
    /\ sinceAccept' = Advance(sinceAccept, SinceCap)
    /\ trueSince' = Elapse(LongIdleSpan)
    /\ sinceMatch' = Advance(sinceMatch, SinceCap)
    /\ UNCHANGED <<detVars, taskPc, drvInstalled, drvStarted, fg, fgRet,
                   crashed, ticks, mic, micPos, lastCall, cfgResult, matchLog,
                   prevSetting, appVars,
                   thresholdRead, runs, lastRead, startCalls, features, staleTrigger>>

(***************************************************************************)
(* The detector under an arbitrary caller.                                 *)
(***************************************************************************)
InitDetector ==
    /\ initialized = FALSE /\ listening = FALSE /\ enabled = TRUE
    /\ callbackSet = FALSE /\ taskHandle = FALSE /\ taskRunning = FALSE
    /\ buffers = NoBuffers
    /\ energyHistory = ZeroHistory /\ zcrHistory = ZeroHistory
    /\ historyIndex = 0
    /\ sensitivity = F0_5
    /\ energyThreshold = WAKE_WORD_ENERGY_THRESHOLD
    /\ triggerThreshold = WAKE_WORD_TRIGGER_THRESHOLD
    /\ patternState = "IDLE" /\ patternStartTime = U32Small(0)
    /\ sustainedFrames = 0
    /\ detectionCount = 0 /\ lastDetectionTime = U32Small(0)

InitOthers ==
    /\ taskPc = "none" /\ thresholdRead = FZero
    /\ lastRead = "none" /\ startCalls = 0 /\ features = NoFeatures
    /\ staleTrigger = FALSE
    /\ drvInstalled = FALSE /\ drvStarted = FALSE
    /\ fg = "idle" /\ fgRet = "idle"
    /\ crashed = FALSE
    /\ now = U32Small(0) /\ ticks = 0
    /\ micPos = 0
    /\ lastCall = "none" /\ cfgResult = "none"
    /\ sinceAccept = -1 /\ sinceMatch = -1 /\ matchLog = <<>>
    /\ trueSince = NoneSince
    /\ prevSetting = NoSetting
    /\ longIdles = 0
    /\ currentState = "INIT" /\ wakeWordTriggered = FALSE
    /\ errorTime = U32Small(0)
    /\ audioInit = FALSE /\ recording = FALSE /\ bufferPos = 0
    /\ avgLoud = FALSE /\ lastSoundTime = U32Small(0)

InitRest ==
    /\ InitOthers
    /\ runs = TwinStart

Init ==
    /\ InitDetector
    /\ InitRest
    /\ mic \in MicScripts

Next ==
    \/ \E got \in [{"audio", "energy", "zcr"} -> BOOLEAN] : Begin(got)
    \/ End
    \/ EndAfterStop
    \/ StartListening
    \/ StartFinish
    \/ StopListening
    \/ StopDelete
    \/ \E b \in BOOLEAN : SetEnabled(b)
    \/ \E c \in BOOLEAN : SetCallback(c)
    \/ TaskCheck
    \/ TaskReadFrame(MaxLifeFrames)
    \/ TaskReadNothing
    \/ Tick(MaxTicks)

Spec == Init /\ [][Next]_vars

(***************************************************************************)
(* One listening session: the detector is started once and the task        *)
(* processes the microphone's frames while time passes.                    *)
(***************************************************************************)
NextSession ==
    \/ Begin(AllBuffers)
    \/ StartListening
    \/ StartFinish
    \/ \E c \in BOOLEAN : SetCallback(c)
    \/ TaskCheck
    \/ TaskReadFrame(MaxFrames)
    \/ TaskReadNothing
    \/ Tick(MaxTicks)

SpecSession == Init /\ [][NextSession]_vars

\* the same over a run long enough for millis() to wrap
NextLongRun ==
    \/ Begin(AllBuffers)
    \/ StartListening
    \/ StartFinish
    \/ \E c \in BOOLEAN : SetCallback(c)
    \/ TaskCheck
    \/ TaskReadFrame(MaxFrames)
    \/ TaskReadNothing
    \/ Tick(MaxTicks)
    \/ LongIdle

SpecLongRun == Init /\ [][NextLongRun]_vars

\* the same with an idle period that ends two ticks before millis() is back
\* where it was, so that a pattern and the cooldown after it can begin before
\* the wrap and end after it
LongerIdleSpan == U32(Half - 1, Half - 2 * TickMs)

LongerIdle ==
    /\ ~crashed
    /\ longIdles < MaxLongIdles
    /\ longIdles' = longIdles + 1
    /\ now' = U32Add(now, LongerIdleSpan)
    /\ sinceAccept' = Advance(sinceAccept, SinceCap)
    /\ sinceMatch' = Advance(sinceMatch, SinceCap)
    /\ trueSince' = Elapse(LongerIdleSpan)
    /\ UNCHANGED <<detVars, taskPc, drvInstalled, drvStarted, fg, fgRet,
                   crashed, ticks, mic, micPos, lastCall, cfgResult, matchLog,
                   prevSetting, appVars,
                   thresholdRead, runs, lastRead, startCalls, features, staleTrigger>>

NextWrap ==
    \/ Begin(AllBuffers)
    \/ StartListening
    \/ StartFinish
    \/ \E c \in BOOLEAN : SetCallback(c)
    \/ TaskCheck
    \/ TaskReadFrame(MaxFrames)
    \/ TaskReadNothing
    \/ Tick(MaxTicks)
    \/ LongerIdle

SpecWrap == Init /\ [][NextWrap]_vars

(***************************************************************************)
(* The sensitivity dial: setSensitivity() on a detector that is not        *)
(* listening.                                                              *)
(***************************************************************************)
\* -0.5, 0, 0.1f, 0.3f, 0.5f, 0.9f, 1, 1.5
SensitivityInputs ==
    {FNeg(8388608, -24), FZero, Flt(13421773, -27), Flt(10066330, -25),
     Flt(8388608, -24), Flt(15099494, -24), FOne, Flt(12582912, -23)}

NextSens ==
    \/ \E x \in SensitivityInputs : SetSensitivity(x)
    \/ \E got \in [{"audio", "energy", "zcr"} -> BOOLEAN] : Begin(got)
    \/ End
    \/ \E b \in BOOLEAN : SetEnabled(b)

SpecSens == Init /\ [][NextSens]_vars

(***************************************************************************)
(* Tuning while listening: setSensitivity() in the foreground beside the   *)
(* detection task.  _energyThreshold is a plain float that the task reads  *)
(* without synchronization, so here the evaluation of a frame is taken     *)
(* read by read: in RISING_EDGE detectWakePattern reads _energyThreshold   *)
(* for the voiced-frame test and, when that fails, once more for the       *)
(* dropped-too-fast test.  The other pattern states read it at most once.  *)
(***************************************************************************)
\* the voiced-frame test of RISING_EDGE on features e, zc with threshold thr
VoicedFrame(e, zc, thr) ==
    /\ FLt(FMul(thr, F0_8), FFromInt(e))
    /\ FLt(F0_02, ZcrOf(zc))
    /\ FLt(ZcrOf(zc), F0_2)

\* i2s_read() returns a frame and processAudioFrame() runs up to the
\* voiced-frame test of RISING_EDGE; when that test fails the evaluation
\* goes on in TaskRetest
TaskReadFrameVoicedTest(limit) ==
    /\ taskPc = "read" /\ ~crashed
    /\ drvInstalled /\ drvStarted
    /\ micPos < limit
    /\ micPos' = micPos + 1
    /\ LET f == mic[(micPos % Len(mic)) + 1]
       IN  IF /\ patternState = "RISING_EDGE"
              /\ ~VoicedFrame(f.energy, f.zc, energyThreshold)
           THEN /\ energyHistory' = [energyHistory EXCEPT ![historyIndex] = f.energy]
                /\ zcrHistory' = [zcrHistory EXCEPT ![historyIndex] = f.zc]
                /\ historyIndex' = (historyIndex + 1) % HISTORY_SIZE
                /\ thresholdRead' = energyThreshold
                /\ taskPc' = "retest"
                /\ UNCHANGED <<patternState, patternStartTime, sustainedFrames,
                               detectionCount, lastDetectionTime, sinceAccept, trueSince,
                               sinceMatch, matchLog, wakeWordTriggered>>
           ELSE /\ ProcessAudioFrame(f)
                /\ taskPc' = "check"
                /\ UNCHANGED thresholdRead
    /\ UNCHANGED <<taskFrame, runs, lastRead, startCalls, features, staleTrigger>>

\* the rest of the evaluation in RISING_EDGE: the dropped-too-fast test
\* uses the value the build kept in a register or the one it loads again
\* from _energyThreshold (the accesses are not synchronized, so the compiler
\* is free to do either); then vTaskDelay(10 ms)
TaskRetest ==
    /\ taskPc = "retest" /\ ~crashed
    /\ \E thr \in {thresholdRead, energyThreshold} :
         LET currentIdx == (historyIndex + HISTORY_SIZE - 1) % HISTORY_SIZE
         IN  /\ patternState' =
                   IF FLt(FFromInt(energyHistory[currentIdx]), FMul(thr, F0_3))
                   THEN "IDLE" ELSE patternState
             /\ thresholdRead' = thr
    /\ taskPc' = "check"
    /\ UNCHANGED <<taskFrame, energyHistory, zcrHistory, historyIndex,
                   patternStartTime, sustainedFrames, detectionCount,
                   lastDetectionTime, micPos, sinceAccept, trueSince, sinceMatch, matchLog,
                   wakeWordTriggered, runs, lastRead, startCalls, features, staleTrigger>>

NextTune ==
    \/ Begin(AllBuffers)
    \/ StartListening
    \/ StartFinish
    \/ \E x \in SensitivityInputs : SetSensitivity(x)
    \/ TaskCheck
    \/ TaskReadFrameVoicedTest(MaxTuneFrames)
    \/ TaskRetest
    \/ TaskReadNothing

SpecTune == Init /\ [][NextTune]_vars

(***************************************************************************)
(* Two runs of the matcher on the same frames.  Each run has its own       *)
(* clock: a frame reaches a run d ms after the run's previous frame, with  *)
(* d chosen for each run separately.                                       *)
(***************************************************************************)
Spacings == {0, TwinStepMs}

\* processAudioFrame() up to the call of detectWakePattern(), for the n-th
\* frame f reaching run r after d ms
RunStep(r, f, d, n) ==
    LET t   == U32Add(r.clock, U32Small(d))
        eh  == [r.eh EXCEPT ![r.idx] = f.energy]
        zh  == [r.zh EXCEPT ![r.idx] = f.zc]
        idx == (r.idx + 1) % HISTORY_SIZE
        res == DetectWakePattern(eh, zh, idx, r.ps, r.pst, r.sf,
                                 WAKE_WORD_ENERGY_THRESHOLD, t)
    IN  [clock |-> t, eh |-> eh, zh |-> zh, idx |-> idx,
         ps |-> res.ps, pst |-> res.pst, sf |-> res.sf,
         fired |-> IF res.ret THEN r.fired \cup {n} ELSE r.fired]

twinFrame == <<detVars, taskPc, drvInstalled, drvStarted, fg, fgRet, crashed,
               now, ticks, mic, micPos, lastCall, cfgResult, sinceAccept, trueSince,
               sinceMatch, matchLog, prevSetting, longIdles, appVars,
               thresholdRead, lastRead, startCalls, features, staleTrigger>>

\* the next frame of the microphone script reaches both runs
TwinFrame ==
    /\ runs.n < MaxTwinFrames
    /\ \E da \in Spacings, db \in Spacings :
         LET f == mic[(runs.n % Len(mic)) + 1]
         IN  runs' = [a |-> RunStep(runs.a, f, da, runs.n),
                      b |-> RunStep(runs.b, f, db, runs.n),
                      n |-> runs.n + 1,
                      sameSpacing |-> runs.sameSpacing /\ da = db]
    /\ UNCHANGED twinFrame

NextTwin == TwinFrame

SpecTwin == Init /\ [][NextTwin]_vars

(***************************************************************************)
(* The feature extractors, on frames of a few samples.  A float that is    *)
(* NaN is FNaN; 0.0f / 0 is NaN, and NaN goes through sqrt() and through a *)
(* product.                                                                *)
(***************************************************************************)
FNaN == [neg |-> FALSE, m |-> 0, e |-> 255]

F32768 == Flt(P23, -8)

SampleValues == {-16384, 0, 16384}

RECURSIVE FramesUpTo(_)
FramesUpTo(n) ==
    IF n = 0 THEN {<<>>}
    ELSE FramesUpTo(n - 1) \cup
         {Append(f, v) : f \in {g \in FramesUpTo(n - 1) : Len(g) = n - 1},
                         v \in SampleValues}

SampleFrames == FramesUpTo(MaxSamples)

Magnitude(v) == IF v < 0 THEN 0 - v ELSE v

\* sum / count and (float)crossings / count, for sum = 0 and crossings = 0
\* where count = 0
DivByCount(a, count) ==
    IF count = 0 THEN FNaN ELSE FDiv(a, FFromInt(count))

\* the square root of mm * 4^14, two bits at a time from pair j down
RECURSIVE SqrtBits(_, _, _, _)
SqrtBits(mm, j, rem, root) ==
    IF j < -14 THEN <<root, rem>>
    ELSE LET pair  == IF j >= 0 THEN (mm \div (4^j)) % 4 ELSE 0
             r     == rem * 4 + pair
             trial == root * 4 + 1
         IN  IF r >= trial THEN SqrtBits(mm, j - 1, r - trial, root * 2 + 1)
             ELSE SqrtBits(mm, j - 1, r, root * 2)

\* sqrt(x) for x >= 0 or NaN, rounded to nearest
Sqrt(x) ==
    IF x = FNaN THEN FNaN
    ELSE IF x.m = 0 THEN FZero
    ELSE LET odd == x.e % 2 # 0
             mm  == IF odd THEN 2 * x.m ELSE 4 * x.m
             ee  == IF odd THEN x.e - 1 ELSE x.e - 2
             rr  == SqrtBits(mm, 12, 0, 0)
             d   == IF rr[2] # 0 /\ rr[1] % 2 = 0 THEN rr[1] + 1 ELSE rr[1]
         IN  RoundPack(d, (ee \div 2) - 14)

\* the loop of calculateEnergy() over the first n samples
RECURSIVE SquareSum(_, _)
SquareSum(samples, n) ==
    IF n = 0 THEN FZero
    ELSE LET normalized == FDiv(FFromInt(Magnitude(samples[n])), F32768)
         IN  FAdd(SquareSum(samples, n - 1), FMul(normalized, normalized))

calculateEnergy(samples) ==
    LET count == Len(samples)
        root  == Sqrt(DivByCount(SquareSum(samples, count), count))
    IN  IF root = FNaN THEN FNaN ELSE FMul(root, F32768)

\* the loop of calculateZeroCrossingRate() over the first n samples
RECURSIVE Crossings(_, _)
Crossings(samples, n) ==
    IF n <= 1 THEN 0
    ELSE Crossings(samples, n - 1) +
         (IF \/ samples[n - 1] >= 0 /\ samples[n] < 0
             \/ samples[n - 1] < 0 /\ samples[n] >= 0
          THEN 1 ELSE 0)

calculateZeroCrossingRate(samples) ==
    LET count == Len(samples)
    IN  DivByCount(FFromInt(Crossings(samples, count)), count)

\* the two calls at the head of processAudioFrame()
ExtractFeatures ==
    /\ \E samples \in SampleFrames :
         features' = [called |-> TRUE, samples |-> samples,
                      energy |-> calculateEnergy(samples),
                      zcr |-> calculateZeroCrossingRate(samples)]
    /\ UNCHANGED <<detVars, taskPc, drvInstalled, drvStarted, fg, fgRet, crashed,
                   now, ticks, mic, micPos, lastCall, cfgResult, sinceAccept, trueSince,
                   sinceMatch, matchLog, prevSetting, longIdles, appVars,
                   thresholdRead, runs, lastRead, startCalls, staleTrigger>>

NextExtract == ExtractFeatures

SpecExtract == Init /\ [][NextExtract]_vars

(***************************************************************************)
(* Frames without samples.  processAudioFrame() with count = 0 divides     *)
(* 0.0f by 0 in both extractors, so the energy and the zero-crossing rate  *)
(* of such a frame are NaN; InvalidValue stands for NaN in the histories.  *)
(* Every comparison with a NaN operand is false, and a sum with a NaN      *)
(* term is NaN.                                                            *)
(***************************************************************************)
InvalidValue == 0 - 1

\* the features of a frame of 0 samples
InvalidFrame == Frame(InvalidValue, InvalidValue)

\* detectWakePattern() on histories that may hold NaN
DetectWakePatternNaN(eh, zh, idx, ps, pst, sf, thr, t) ==
    LET currentIdx    == (idx + HISTORY_SIZE - 1) % HISTORY_SIZE
        nanEnergy     == eh[currentIdx] = InvalidValue
        nanZcr        == zh[currentIdx] = InvalidValue
        nanAvg        == \E i \in 0..(HISTORY_SIZE - 1) : eh[i] = InvalidValue
        finite        == [i \in 0..(HISTORY_SIZE - 1) |->
                            IF eh[i] = InvalidValue THEN 0 ELSE eh[i]]
        avgEnergy     == FDiv(FFromInt(SumTo(finite, HISTORY_SIZE)),
                              FFromInt(HISTORY_SIZE))
        currentEnergy == FFromInt(finite[currentIdx])
        currentZcr    == ZcrOf(IF nanZcr THEN 0 ELSE zh[currentIdx])
        \* currentEnergy > x and currentEnergy < x
        Above(x)      == ~nanEnergy /\ FLt(x, currentEnergy)
        Below(x)      == ~nanEnergy /\ FLt(currentEnergy, x)
        elapsed       == U32Sub(t, pst)
        same          == [ps |-> ps, pst |-> pst, sf |-> sf, ret |-> FALSE]
    IN  CASE ps = "IDLE" ->
               IF /\ Above(thr)
                  /\ ~nanAvg /\ Above(FMul(avgEnergy, F1_5))
               THEN [ps |-> "RISING_EDGE", pst |-> t, sf |-> 0, ret |-> FALSE]
               ELSE same
          [] ps = "RISING_EDGE" ->
               IF /\ Above(FMul(thr, F0_8))
                  /\ ~nanZcr /\ FLt(F0_02, currentZcr) /\ FLt(currentZcr, F0_2)
               THEN [same EXCEPT !.sf = sf + 1,
                                 !.ps = IF sf + 1 >= 3 THEN "SUSTAINED" ELSE ps]
               ELSE IF Below(FMul(thr, F0_3))
               THEN [same EXCEPT !.ps = "IDLE"]
               ELSE same
          [] ps = "SUSTAINED" ->
               IF Above(FMul(thr, F0_5))
               THEN [same EXCEPT !.sf = sf + 1,
                                 !.ps = IF U32Gt(elapsed, 1500) THEN "IDLE" ELSE ps]
               ELSE [same EXCEPT !.ps = "FALLING_EDGE"]
          [] ps = "FALLING_EDGE" ->
               IF U32Ge(elapsed, 300) /\ U32Le(elapsed, 1200) /\ sf >= 5
               THEN [same EXCEPT !.ps = "DETECTED", !.ret = TRUE]
               ELSE [same EXCEPT !.ps = "IDLE"]
          [] ps = "DETECTED" ->
               [same EXCEPT !.ps = "IDLE"]

\* processAudioFrame() up to the call of detectWakePattern(), for the n-th
\* frame f, of samples or without, reaching run r after d ms
RunStepNaN(r, f, d, n) ==
    LET t   == U32Add(r.clock, U32Small(d))
        eh  == [r.eh EXCEPT ![r.idx] = f.energy]
        zh  == [r.zh EXCEPT ![r.idx] = f.zc]
        idx == (r.idx + 1) % HISTORY_SIZE
        res == DetectWakePatternNaN(eh, zh, idx, r.ps, r.pst, r.sf,
                                    WAKE_WORD_ENERGY_THRESHOLD, t)
    IN  [clock |-> t, eh |-> eh, zh |-> zh, idx |-> idx,
         ps |-> res.ps, pst |-> res.pst, sf |-> res.sf,
         fired |-> IF res.ret THEN r.fired \cup {n} ELSE r.fired]

\* the next frame of the microphone script reaches both runs
PairFrame ==
    /\ runs.n < MaxInvalidFrames
    /\ \E d \in Spacings :
         LET f == mic[(runs.n % Len(mic)) + 1]
         IN  runs' = [a |-> RunStepNaN(runs.a, f, d, runs.n),
                      b |-> RunStepNaN(runs.b, f, d, runs.n),
                      n |-> runs.n + 1,
                      sameSpacing |-> runs.sameSpacing]
    /\ UNCHANGED twinFrame

\* in place of the script's next frame, run a gets a frame without samples
\* and run b a frame of silence
PairInvalidFrame ==
    /\ runs.n < MaxInvalidFrames
    /\ \E d \in Spacings :
         runs' = [a |-> RunStepNaN(runs.a, InvalidFrame, d, runs.n),
                  b |-> RunStepNaN(runs.b, Quiet, d, runs.n),
                  n |-> runs.n + 1,
                  sameSpacing |-> runs.sameSpacing]
    /\ UNCHANGED twinFrame

\* both runs start at millis() = 0
PairStart ==
    [a |-> StartRun(U32Small(0)), b |-> StartRun(U32Small(0)),
     n |-> 0, sameSpacing |-> TRUE]

InitInvalid ==
    /\ InitDetector
    /\ InitOthers
    /\ runs = PairStart
    /\ mic \in MicScripts

NextInvalid ==
    \/ PairFrame
    \/ PairInvalidFrame

SpecInvalid == InitInvalid /\ [][NextInvalid]_vars

(***************************************************************************)
(* One session over the frames of a wake word: a rising frame, three       *)
(* voiced frames, two sustained frames, a falling frame and one more.      *)
(***************************************************************************)
\* the frames of test_pattern_full_detection_sequence, the zero-crossing
\* rates 0.05, 0.08, 0.07, 0.06 and 0.02 as crossings of a 512-sample frame
DetectionSequence ==
    << Frame(1000, 26), Frame(900, 41), Frame(850, 36), Frame(800, 31),
       Frame(700, 26), Frame(600, 26), Frame(100, 26), Frame(50, 10) >>

\* the same pattern at the edges of its tests for a threshold of 500:
\* energies just above 500, 400 and 250, zero-crossing rates just above 0.02
\* and just below 0.2, and a falling frame at exactly half the threshold
EdgeSequence ==
    << Frame(501, 26), Frame(401, 11), Frame(401, 102), Frame(401, 11),
       Frame(251, 26), Frame(251, 26), Frame(250, 26), Frame(0, 0) >>

SequenceScripts == {DetectionSequence, EdgeSequence}

InitSequence ==
    /\ InitDetector
    /\ InitRest
    /\ mic \in SequenceScripts

NextSequence ==
    \/ Begin(AllBuffers)
    \/ StartListening
    \/ StartFinish
    \/ TaskCheck
    \/ TaskReadFrame(MaxSeqFrames)
    \/ TaskReadNothing
    \/ Tick(MaxTicks)

SpecSequence == InitSequence /\ [][NextSequence]_vars

(***************************************************************************)
(* One session over frames that are no wake word: silence, and noise with  *)
(* a zero-crossing rate above 0.2, at several sensitivities.               *)
(***************************************************************************)
SilentScript == << Quiet >>

\* a loud frame now and then, silence in between
ClickScript == << Loud, Quiet, Quiet >>

\* noise of every energy: zero-crossing rates 0.29, 0.201, 1.0 and 0.39
NoiseScript ==
    << Frame(1000, 150), Frame(600, 103), Frame(0, 512), Frame(100, 200),
       Frame(2000, 150), Frame(1000, 103), Frame(260, 150) >>

\* two voiced frames, then noise
VoicedNoiseScript ==
    << Loud, Loud, Loud, Noise, Frame(600, 103), Noise, Noise, Frame(400, 300),
       Noise, Noise >>

\* rising frames followed by a frame just below, and one at, 0.3 times a
\* threshold of 500
DropScript == << Loud, Frame(149, 40), Loud, Frame(150, 40), Quiet >>

NoTriggerScripts ==
    {SilentScript, ClickScript, NoiseScript, VoicedNoiseScript, DropScript}

\* the frame that the task's next read returns
CurrentFrame == mic[(micPos % Len(mic)) + 1]

\* zcr > 0.2f for a frame's zero-crossing rate
NoisyFrame(f) == FLt(Flt(13421773, -26), ZcrOf(f.zc))

InitNoTrigger ==
    /\ InitDetector
    /\ InitRest
    /\ mic \in NoTriggerScripts

NextNoTrigger ==
    \/ Begin(AllBuffers)
    \/ StartListening
    \/ StartFinish
    \/ \E x \in {FZero, F0_5, FOne} : SetSensitivity(x)
    \/ TaskCheck
    \/ TaskReadFrame(MaxRunFrames)
    \/ TaskReadNothing

SpecNoTrigger == InitNoTrigger /\ [][NextNoTrigger]_vars

(***************************************************************************)
(* The whole public interface around a session that detects a wake word.   *)
(***************************************************************************)
InitCount ==
    /\ InitDetector
    /\ InitRest
    /\ mic = WakeScript

NextCount ==
    \/ Begin(AllBuffers)
    \/ End
    \/ EndAfterStop
    \/ StartListening
    \/ StartFinish
    \/ StopListening
    \/ StopDelete
    \/ \E b \in BOOLEAN : SetEnabled(b)
    \/ \E c \in BOOLEAN : SetCallback(c)
    \/ SetSensitivity(FZero)
    \/ TaskCheck
    \/ TaskReadFrame(MaxCountFrames)
    \/ TaskReadNothing
    \/ Tick(MaxCountTicks)

SpecCount == InitCount /\ [][NextCount]_vars

(***************************************************************************)
(* One session over wake words of several lengths, with time passing in    *)
(* steps that meet the ends of the 300..1200 ms window.                    *)
(***************************************************************************)
\* a wake word with one sustained frame too few: RISING_EDGE, three voiced
\* frames, one more, and the falling edge with sustainedFrames = 4
ShortScript == << Loud, Loud, Loud, Loud, Loud, Quiet, Quiet, Quiet >>

\* a wake word with a loud frame, and one with a noisy frame, right after the
\* frame that detects it
RepeatScript ==
    << Loud, Loud, Loud, Loud, Loud, Loud, Quiet, Quiet, Loud >>

NoiseAfterScript ==
    << Loud, Loud, Loud, Loud, Loud, Loud, Quiet, Quiet, Noise >>

WindowScripts == {WakeScript, ShortScript, RepeatScript, NoiseAfterScript}

\* WindowStepMs pass, up to `limit` times
ShortTick(limit) ==
    /\ ~crashed
    /\ ticks < limit
    /\ ticks' = ticks + 1
    /\ now' = U32Add(now, U32Small(WindowStepMs))
    /\ sinceAccept' = Advance(sinceAccept, WindowStepMs)
    /\ trueSince' = Elapse(U32Small(WindowStepMs))
    /\ sinceMatch' = Advance(sinceMatch, WindowStepMs)
    /\ UNCHANGED <<detVars, taskPc, drvInstalled, drvStarted, fg, fgRet,
                   crashed, mic, micPos, lastCall, cfgResult, matchLog,
                   prevSetting, longIdles, appVars,
                   thresholdRead, runs, lastRead, startCalls, features, staleTrigger>>

InitWindow ==
    /\ InitDetector
    /\ InitRest
    /\ mic \in WindowScripts

NextWindow ==
    \/ Begin(AllBuffers)
    \/ StartListening
    \/ StartFinish
    \/ TaskCheck
    \/ TaskReadFrame(MaxWindowFrames)
    \/ TaskReadNothing
    \/ ShortTick(MaxWindowTicks)

SpecWindow == InitWindow /\ [][NextWindow]_vars

(***************************************************************************)
(* One run of the matcher over frames that come at most TwinStepMs apart,  *)
(* as long as the script: a pattern attempt that has lasted t ms has seen  *)
(* at least t / TwinStepMs frames.                                         *)
(***************************************************************************)
\* a loud frame, then loud noise without end
HissScript == << Loud >> \o [i \in 1..(MaxAttemptFrames - 1) |-> Noise]

\* a voice that does not stop
DroneScript == [i \in 1..MaxAttemptFrames |-> Loud]

AttemptScripts == {WakeScript, VoicedNoiseScript, HissScript, DroneScript}

InitAttempt ==
    /\ InitDetector
    /\ InitOthers
    /\ runs = PairStart
    /\ mic \in AttemptScripts

\* the next frame of the script reaches run a
AttemptFrame ==
    /\ runs.n < MaxAttemptFrames
    /\ \E d \in Spacings :
         runs' = [runs EXCEPT
                    !.a = RunStep(runs.a, mic[(runs.n % Len(mic)) + 1], d, runs.n),
                    !.n = runs.n + 1]
    /\ UNCHANGED twinFrame

NextAttempt == AttemptFrame

SpecAttempt == InitAttempt /\ [][NextAttempt]_vars

(***************************************************************************)
(* One session with every outcome of the task's i2s_read().                *)
(***************************************************************************)
\* ESP_OK with bytesRead > 0; ESP_OK with bytesRead = 0 when the 100 ms
\* wait ran out ("timeout") or nothing was delivered ("empty"); an error code
ReadResults == {"data", "timeout", "error", "empty"}

\* as ReadHasData, with the test of bytesRead left out
ReadHasDataWhenOk(res) == res \in {"data", "empty"}

\* err == ESP_OK && bytesRead > 0
ReadHasData(res) == res = "data"

\* i2s_read() returns, the frame is processed if there is one; then
\* vTaskDelay(10 ms) and back to the loop test
TaskRead(limit) ==
    /\ taskPc = "read" /\ ~crashed
    /\ \E res \in ReadResults :
         /\ res = "data" => (drvInstalled /\ drvStarted /\ micPos < limit)
         /\ lastRead' = res
         /\ IF ReadHasData(res)
            THEN /\ ProcessAudioFrame(CurrentFrame)
                 /\ micPos' = micPos + 1
            ELSE UNCHANGED <<matcherVars, micPos, sinceAccept, trueSince, sinceMatch,
                             matchLog, wakeWordTriggered>>
    /\ taskPc' = "check"
    /\ UNCHANGED <<taskFrame, thresholdRead, runs, startCalls, features, staleTrigger>>

NextRead ==
    \/ Begin(AllBuffers)
    \/ StartListening
    \/ StartFinish
    \/ SetCallback(TRUE)
    \/ TaskCheck
    \/ TaskRead(MaxReadFrames)
    \/ Tick(MaxCountTicks)

SpecRead == Init /\ [][NextRead]_vars

(***************************************************************************)
(* The assistant: setup() and loop() of main.cpp, with the recorder        *)
(* (AudioInput) on the same microphone port.  fg is the position of the    *)
(* loop task; the detection task runs beside it.                           *)
(***************************************************************************)
\* config.h: the detector is compiled in
WAKE_WORD_ENABLED == TRUE

\* samples per read of the recorder
SAMPLE_BUFFER_SIZE == 512

VAD_SILENCE_MS == 1500

\* config.h: taken to be 0.5f, the sensitivity the constructor starts with
WAKE_WORD_SENSITIVITY == Flt(8388608, -24)

\* the delay() calls of setup(); the last only with WiFi connected
SetupDelayMs(wifi) == 1000 + 1500 + (IF wifi THEN 1000 ELSE 0)

\* what startListening() may change besides fg, fgRet and lastCall
startVars == <<cfgResult, drvInstalled, drvStarted, patternState, historyIndex,
               sustainedFrames, energyHistory, zcrHistory, taskRunning,
               taskHandle, taskPc>>

\* setup() up to the delay before setState(IDLE): audioInput.begin() (audioOk
\* says whether it succeeds; it installs the driver, which leaves the port
\* started), the WiFi connection, wakeWord.begin(), setSensitivity() and
\* setCallback()
SetupInit ==
    /\ fg = "setup" /\ ~crashed
    /\ \E audioOk \in BOOLEAN, wifi \in BOOLEAN,
          got \in [{"audio", "energy", "zcr"} -> BOOLEAN] :
         /\ audioInit' = audioOk
         /\ drvInstalled' = audioOk
         /\ drvStarted' = audioOk
         /\ now' = U32Add(now, U32Small(SetupDelayMs(wifi)))
         /\ IF wifi
            THEN /\ BeginBody(got)
                 /\ lastCall' = IF BeginReturns(got)
                                 THEN "begin_true" ELSE "begin_false"
                 /\ IF got = AllBuffers
                    THEN /\ SetSensitivityBody(WAKE_WORD_SENSITIVITY)
                         /\ callbackSet' = TRUE
                    ELSE UNCHANGED <<sensitivity, energyThreshold,
                                     triggerThreshold, prevSetting, callbackSet>>
                 /\ currentState' = "CONNECTING_WIFI"
                 /\ fg' = "setup_idle"
            ELSE /\ currentState' = "ERROR"
                 /\ fg' = "loop_buttons"
                 /\ UNCHANGED <<buffers, energyHistory, zcrHistory, initialized,
                                sensitivity, energyThreshold, triggerThreshold,
                                prevSetting, callbackSet, lastCall>>
    /\ UNCHANGED <<listening, enabled, taskHandle, taskRunning, historyIndex,
                   patternState, patternStartTime, sustainedFrames,
                   detectionCount, lastDetectionTime, taskPc, fgRet, crashed,
                   ticks, mic, micPos, cfgResult, sinceAccept, trueSince,
                   sinceMatch, matchLog, longIdles, wakeWordTriggered,
                   errorTime, recording, bufferPos, avgLoud, lastSoundTime,
                   thresholdRead, runs, lastRead, startCalls, features, staleTrigger>>

\* setState(AssistantState::IDLE), the caller going on at `ret`
SetStateIdle(ret) ==
    IF currentState = "IDLE"
    THEN /\ fg' = ret
         /\ UNCHANGED <<currentState, startVars, fgRet, lastCall, startCalls, features, staleTrigger>>
    ELSE /\ currentState' = "IDLE"
         /\ staleTrigger' = wakeWordTriggered
         /\ IF WAKE_WORD_ENABLED /\ enabled
            THEN /\ startCalls' = 1
                 /\ \E inst \in InstallResults, pin \in {"ok", "fail"},
                       created \in BOOLEAN :
                        StartEnter(ret, inst, pin, created)
            ELSE /\ startCalls' = 0
                 /\ fg' = ret
                 /\ UNCHANGED <<startVars, fgRet, lastCall>>

\* the end of setup() with WiFi connected
SetupIdle ==
    /\ fg = "setup_idle" /\ ~crashed
    /\ SetStateIdle("loop_buttons")
    /\ UNCHANGED <<initialized, listening, enabled, callbackSet, buffers,
                   sensitivity, energyThreshold, triggerThreshold,
                   patternStartTime, detectionCount, lastDetectionTime,
                   crashed, now, ticks, mic, micPos, sinceAccept, trueSince, sinceMatch,
                   matchLog, prevSetting, longIdles, wakeWordTriggered,
                   errorTime, audioInit, recording, bufferPos, avgLoud,
                   lastSoundTime,
                   thresholdRead, runs, lastRead, features>>

\* as StopCall, with the detector left running
StopCallSkipped(ret) ==
    /\ fg' = ret
    /\ UNCHANGED <<taskRunning, drvStarted, listening, fgRet, lastCall,
                   thresholdRead, runs, lastRead, startCalls, features, staleTrigger>>

\* wakeWord.stopListening() called by the loop task, which goes on at `ret`
StopCall(ret) ==
    IF listening
    THEN StopEnter(ret, "stopListening")
    ELSE /\ fg' = ret
         /\ UNCHANGED <<taskRunning, drvStarted, listening, fgRet, lastCall>>

\* buttons.update() without a BOOT press, or with one in a state that
\* handleButtonEvent() ignores
LoopNoButton ==
    /\ fg = "loop_buttons" /\ ~crashed
    /\ fg' = "loop_wake"
    /\ UNCHANGED <<initialized, listening, enabled, callbackSet, taskHandle,
                   taskRunning, buffers, energyHistory, zcrHistory,
                   historyIndex, sensitivity, energyThreshold,
                   triggerThreshold, patternState, patternStartTime,
                   sustainedFrames, detectionCount, lastDetectionTime,
                   taskPc, drvInstalled, drvStarted, fgRet, crashed, now,
                   ticks, mic, micPos, lastCall, cfgResult, sinceAccept, trueSince,
                   sinceMatch, matchLog, prevSetting, longIdles,
                   currentState, wakeWordTriggered, errorTime, audioInit,
                   recording, bufferPos, avgLoud, lastSoundTime,
                   thresholdRead, runs, lastRead, startCalls, features, staleTrigger>>

\* BOOT pressed in IDLE: wakeWord.stopListening()
BootInIdle ==
    /\ fg = "loop_buttons" /\ ~crashed
    /\ currentState = "IDLE"
    /\ StopCall("boot_start")
    /\ UNCHANGED <<initialized, enabled, callbackSet, taskHandle, buffers,
                   energyHistory, zcrHistory, historyIndex, sensitivity,
                   energyThreshold, triggerThreshold, patternState,
                   patternStartTime, sustainedFrames, detectionCount,
                   lastDetectionTime, taskPc, drvInstalled, crashed, now,
                   ticks, mic, micPos, cfgResult, sinceAccept, trueSince, sinceMatch,
                   matchLog, prevSetting, longIdles, currentState,
                   wakeWordTriggered, errorTime, audioInit, recording,
                   bufferPos, avgLoud, lastSoundTime,
                   thresholdRead, runs, lastRead, startCalls, features, staleTrigger>>

\* audioInput.startRecording() and setState(LISTENING), which calls
\* wakeWord.stopListening() again
BeginRecording(ret) ==
    /\ IF audioInit
       THEN /\ bufferPos' = 0
            /\ recording' = TRUE
            /\ lastSoundTime' = now
       ELSE UNCHANGED <<bufferPos, recording, lastSoundTime>>
    /\ currentState' = "LISTENING"
    /\ StopCall(ret)

\* BOOT pressed in IDLE, after stopListening()
BootStart ==
    /\ fg = "boot_start" /\ ~crashed
    /\ BeginRecording("loop_wake")
    /\ UNCHANGED <<initialized, enabled, callbackSet, taskHandle, buffers,
                   energyHistory, zcrHistory, historyIndex, sensitivity,
                   energyThreshold, triggerThreshold, patternState,
                   patternStartTime, sustainedFrames, detectionCount,
                   lastDetectionTime, taskPc, drvInstalled, crashed, now,
                   ticks, mic, micPos, cfgResult, sinceAccept, trueSince, sinceMatch,
                   matchLog, prevSetting, longIdles, wakeWordTriggered,
                   errorTime, audioInit, avgLoud,
                   thresholdRead, runs, lastRead, startCalls, features, staleTrigger>>

\* BOOT pressed in LISTENING: stopRecording(), setState(PROCESSING)
BootInListening ==
    /\ fg = "loop_buttons" /\ ~crashed
    /\ currentState = "LISTENING"
    /\ recording' = FALSE
    /\ currentState' = "PROCESSING"
    /\ fg' = "loop_wake"
    /\ UNCHANGED <<initialized, listening, enabled, callbackSet, taskHandle,
                   taskRunning, buffers, energyHistory, zcrHistory,
                   historyIndex, sensitivity, energyThreshold,
                   triggerThreshold, patternState, patternStartTime,
                   sustainedFrames, detectionCount, lastDetectionTime,
                   taskPc, drvInstalled, drvStarted, fgRet, crashed, now,
                   ticks, mic, micPos, lastCall, cfgResult, sinceAccept, trueSince,
                   sinceMatch, matchLog, prevSetting, longIdles,
                   wakeWordTriggered, errorTime, audioInit, bufferPos,
                   avgLoud, lastSoundTime,
                   thresholdRead, runs, lastRead, startCalls, features, staleTrigger>>

\* BOOT pressed in RESPONDING: audioOutput.stop(), setState(IDLE)
BootInResponding ==
    /\ fg = "loop_buttons" /\ ~crashed
    /\ currentState = "RESPONDING"
    /\ SetStateIdle("loop_wake")
    /\ UNCHANGED <<initialized, listening, enabled, callbackSet, buffers,
                   sensitivity, energyThreshold, triggerThreshold,
                   patternStartTime, detectionCount, lastDetectionTime,
                   crashed, now, ticks, mic, micPos, sinceAccept, trueSince, sinceMatch,
                   matchLog, prevSetting, longIdles, wakeWordTriggered,
                   errorTime, audioInit, recording, bufferPos, avgLoud,
                   lastSoundTime,
                   thresholdRead, runs, lastRead, features>>

\* as LoopWake, with the trigger taken in whatever state the assistant is
LoopWakeInAnyState ==
    /\ fg = "loop_wake" /\ ~crashed
    /\ IF wakeWordTriggered
       THEN /\ wakeWordTriggered' = FALSE
            /\ staleTrigger' = FALSE
            /\ StopCall("wake_start")
       ELSE /\ fg' = "loop_listen"
            /\ UNCHANGED <<wakeWordTriggered, taskRunning, drvStarted,
                           listening, fgRet, lastCall, staleTrigger>>
    /\ UNCHANGED <<initialized, enabled, callbackSet, taskHandle, buffers,
                   energyHistory, zcrHistory, historyIndex, sensitivity,
                   energyThreshold, triggerThreshold, patternState,
                   patternStartTime, sustainedFrames, detectionCount,
                   lastDetectionTime, taskPc, drvInstalled, crashed, now,
                   ticks, mic, micPos, cfgResult, sinceAccept, trueSince, sinceMatch,
                   matchLog, prevSetting, longIdles, currentState, errorTime,
                   audioInit, recording, bufferPos, avgLoud, lastSoundTime,
                   thresholdRead, runs, lastRead, startCalls, features>>

\* loop(): the wake word trigger
LoopWake ==
    /\ fg = "loop_wake" /\ ~crashed
    /\ IF wakeWordTriggered /\ currentState = "IDLE"
       THEN /\ wakeWordTriggered' = FALSE
            /\ staleTrigger' = FALSE
            /\ StopCall("wake_start")
       ELSE /\ fg' = "loop_listen"
            /\ UNCHANGED <<wakeWordTriggered, taskRunning, drvStarted,
                           listening, fgRet, lastCall, staleTrigger>>
    /\ UNCHANGED <<initialized, enabled, callbackSet, taskHandle, buffers,
                   energyHistory, zcrHistory, historyIndex, sensitivity,
                   energyThreshold, triggerThreshold, patternState,
                   patternStartTime, sustainedFrames, detectionCount,
                   lastDetectionTime, taskPc, drvInstalled, crashed, now,
                   ticks, mic, micPos, cfgResult, sinceAccept, trueSince, sinceMatch,
                   matchLog, prevSetting, longIdles, currentState, errorTime,
                   audioInit, recording, bufferPos, avgLoud, lastSoundTime,
                   thresholdRead, runs, lastRead, startCalls, features>>

\* the wake word trigger, after stopListening()
WakeStart ==
    /\ fg = "wake_start" /\ ~crashed
    /\ BeginRecording("loop_listen")
    /\ UNCHANGED <<initialized, enabled, callbackSet, taskHandle, buffers,
                   energyHistory, zcrHistory, historyIndex, sensitivity,
                   energyThreshold, triggerThreshold, patternState,
                   patternStartTime, sustainedFrames, detectionCount,
                   lastDetectionTime, taskPc, drvInstalled, crashed, now,
                   ticks, mic, micPos, cfgResult, sinceAccept, trueSince, sinceMatch,
                   matchLog, prevSetting, longIdles, wakeWordTriggered,
                   errorTime, audioInit, avgLoud,
                   thresholdRead, runs, lastRead, startCalls, features, staleTrigger>>

\* loop(): in LISTENING audioInput.process() enters i2s_read(), unless the
\* recorder is not initialized
LoopListen ==
    /\ fg = "loop_listen" /\ ~crashed
    /\ fg' = IF currentState = "LISTENING" /\ audioInit
             THEN "rec_read" ELSE "loop_switch"
    /\ UNCHANGED <<initialized, listening, enabled, callbackSet, taskHandle,
                   taskRunning, buffers, energyHistory, zcrHistory,
                   historyIndex, sensitivity, energyThreshold,
                   triggerThreshold, patternState, patternStartTime,
                   sustainedFrames, detectionCount, lastDetectionTime,
                   taskPc, drvInstalled, drvStarted, fgRet, crashed, now,
                   ticks, mic, micPos, lastCall, cfgResult, sinceAccept, trueSince,
                   sinceMatch, matchLog, prevSetting, longIdles,
                   currentState, wakeWordTriggered, errorTime, audioInit,
                   recording, bufferPos, avgLoud, lastSoundTime,
                   thresholdRead, runs, lastRead, startCalls, features, staleTrigger>>

\* i2s_read() of audioInput.process() returns, with samples (got) or without;
\* loud says whether their average level is above VAD_THRESHOLD.  Then the
\* rest of process() and the voice activity test of loop().
RecRead ==
    /\ fg = "rec_read" /\ ~crashed
    /\ \E got \in (IF drvInstalled /\ drvStarted THEN BOOLEAN ELSE {FALSE}),
          loud \in BOOLEAN :
         LET level  == IF got THEN loud ELSE avgLoud
             pos    == IF got /\ recording /\ bufferPos < MaxRecReads
                       THEN bufferPos + 1 ELSE bufferPos
             \* stopRecording() when the buffer is full
             rec    == recording /\ ~(got /\ pos >= MaxRecReads)
             \* detectVoice() returns false
             silent == /\ rec
                       /\ ~level
                       /\ U32Gt(U32Sub(now, lastSoundTime), VAD_SILENCE_MS)
         IN  /\ avgLoud' = level
             /\ bufferPos' = pos
             /\ lastSoundTime' = IF rec /\ level THEN now ELSE lastSoundTime
             /\ recording' = (rec /\ ~silent)
             /\ currentState' = IF silent THEN "PROCESSING" ELSE currentState
    /\ fg' = "loop_switch"
    /\ UNCHANGED <<initialized, listening, enabled, callbackSet, taskHandle,
                   taskRunning, buffers, energyHistory, zcrHistory,
                   historyIndex, sensitivity, energyThreshold,
                   triggerThreshold, patternState, patternStartTime,
                   sustainedFrames, detectionCount, lastDetectionTime,
                   taskPc, drvInstalled, drvStarted, fgRet, crashed, now,
                   ticks, mic, micPos, lastCall, cfgResult, sinceAccept, trueSince,
                   sinceMatch, matchLog, prevSetting, longIdles,
                   wakeWordTriggered, errorTime, audioInit,
                   thresholdRead, runs, lastRead, startCalls, features, staleTrigger>>

\* loop(), case PROCESSING: processVoiceInput() ends in IDLE (too short, no
\* speech, or no audio to play), in ERROR, or in RESPONDING with the answer
\* playing
SwitchProcessing ==
    /\ fg = "loop_switch" /\ ~crashed
    /\ currentState = "PROCESSING"
    /\ \E outcome \in (IF bufferPos * SAMPLE_BUFFER_SIZE < 1000
                       THEN {"IDLE"} ELSE {"IDLE", "ERROR", "RESPONDING"}) :
         IF outcome = "IDLE"
         THEN SetStateIdle("loop_buttons")
         ELSE /\ currentState' = outcome
              /\ fg' = "loop_buttons"
              /\ UNCHANGED <<startVars, fgRet, lastCall, startCalls, features, staleTrigger>>
    /\ UNCHANGED <<initialized, listening, enabled, callbackSet, buffers,
                   sensitivity, energyThreshold, triggerThreshold,
                   patternStartTime, detectionCount, lastDetectionTime,
                   crashed, now, ticks, mic, micPos, sinceAccept, trueSince, sinceMatch,
                   matchLog, prevSetting, longIdles, wakeWordTriggered,
                   errorTime, audioInit, recording, bufferPos, avgLoud,
                   lastSoundTime,
                   thresholdRead, runs, lastRead, features>>

\* loop(), case RESPONDING: back to IDLE when the playback is over
SwitchResponding ==
    /\ fg = "loop_switch" /\ ~crashed
    /\ currentState = "RESPONDING"
    /\ \E playing \in BOOLEAN :
         IF playing
         THEN /\ fg' = "loop_buttons"
              /\ UNCHANGED <<currentState, startVars, fgRet, lastCall,
                               startCalls, features, staleTrigger>>
         ELSE SetStateIdle("loop_buttons")
    /\ UNCHANGED <<initialized, listening, enabled, callbackSet, buffers,
                   sensitivity, energyThreshold, triggerThreshold,
                   patternStartTime, detectionCount, lastDetectionTime,
                   crashed, now, ticks, mic, micPos, sinceAccept, trueSince, sinceMatch,
                   matchLog, prevSetting, longIdles, wakeWordTriggered,
                   errorTime, audioInit, recording, bufferPos, avgLoud,
                   lastSoundTime,
                   thresholdRead, runs, lastRead, features>>

\* loop(), case ERROR: after 5 seconds back to IDLE if WiFi is connected
SwitchError ==
    /\ fg = "loop_switch" /\ ~crashed
    /\ currentState = "ERROR"
    /\ LET since == IF errorTime = U32Small(0) THEN now ELSE errorTime
       IN  IF U32Gt(U32Sub(now, since), 5000)
           THEN /\ errorTime' = U32Small(0)
                /\ \E connected \in BOOLEAN :
                     IF connected
                     THEN SetStateIdle("loop_buttons")
                     ELSE /\ fg' = "loop_buttons"
                          /\ UNCHANGED <<currentState, startVars, fgRet,
                                         lastCall, startCalls, features, staleTrigger>>
           ELSE /\ errorTime' = since
                /\ fg' = "loop_buttons"
                /\ UNCHANGED <<currentState, startVars, fgRet, lastCall,
                               startCalls, features, staleTrigger>>
    /\ UNCHANGED <<initialized, listening, enabled, callbackSet, buffers,
                   sensitivity, energyThreshold, triggerThreshold,
                   patternStartTime, detectionCount, lastDetectionTime,
                   crashed, now, ticks, mic, micPos, sinceAccept, trueSince, sinceMatch,
                   matchLog, prevSetting, longIdles, wakeWordTriggered,
                   audioInit, recording, bufferPos, avgLoud, lastSoundTime,
                   thresholdRead, runs, lastRead, features>>

\* as SwitchDefault, with startListening() tried again in every pass of the
\* loop in which the state is IDLE and the detector is not listening
SwitchDefaultRetrying ==
    /\ fg = "loop_switch" /\ ~crashed
    /\ currentState \notin {"PROCESSING", "RESPONDING", "ERROR"}
    /\ IF currentState = "IDLE" /\ ~listening
       THEN /\ startCalls' = 2
            /\ UNCHANGED staleTrigger
            /\ \E inst \in InstallResults, pin \in {"ok", "fail"},
                  created \in BOOLEAN :
                   StartEnter("loop_buttons", inst, pin, created)
       ELSE /\ fg' = "loop_buttons"
            /\ UNCHANGED <<startVars, fgRet, lastCall, startCalls, features, staleTrigger>>
    /\ UNCHANGED <<initialized, listening, enabled, callbackSet, buffers,
                   sensitivity, energyThreshold, triggerThreshold,
                   patternStartTime, detectionCount, lastDetectionTime,
                   crashed, now, ticks, mic, micPos, sinceAccept, trueSince, sinceMatch,
                   matchLog, prevSetting, longIdles, currentState,
                   wakeWordTriggered, errorTime, audioInit, recording,
                   bufferPos, avgLoud, lastSoundTime,
                   thresholdRead, runs, lastRead, features>>

\* loop(), the other cases of the switch
SwitchDefault ==
    /\ fg = "loop_switch" /\ ~crashed
    /\ currentState \notin {"PROCESSING", "RESPONDING", "ERROR"}
    /\ fg' = "loop_buttons"
    /\ UNCHANGED <<initialized, listening, enabled, callbackSet, taskHandle,
                   taskRunning, buffers, energyHistory, zcrHistory,
                   historyIndex, sensitivity, energyThreshold,
                   triggerThreshold, patternState, patternStartTime,
                   sustainedFrames, detectionCount, lastDetectionTime,
                   taskPc, drvInstalled, drvStarted, fgRet, crashed, now,
                   ticks, mic, micPos, lastCall, cfgResult, sinceAccept, trueSince,
                   sinceMatch, matchLog, prevSetting, longIdles,
                   currentState, wakeWordTriggered, errorTime, audioInit,
                   recording, bufferPos, avgLoud, lastSoundTime,
                   thresholdRead, runs, lastRead, startCalls, features, staleTrigger>>

InitApp ==
    /\ InitDetector
    /\ taskPc = "none" /\ thresholdRead = FZero /\ runs = TwinStart
    /\ lastRead = "none" /\ startCalls = 0 /\ features = NoFeatures
    /\ staleTrigger = FALSE
    /\ drvInstalled = FALSE /\ drvStarted = FALSE
    /\ fg = "setup" /\ fgRet = "idle"
    /\ crashed = FALSE
    /\ now = U32Small(0) /\ ticks = 0
    /\ micPos = 0
    /\ lastCall = "none" /\ cfgResult = "none"
    /\ sinceAccept = -1 /\ sinceMatch = -1 /\ matchLog = <<>>
    /\ trueSince = NoneSince
    /\ prevSetting = NoSetting
    /\ longIdles = 0
    /\ currentState = "INIT" /\ wakeWordTriggered = FALSE
    /\ errorTime = U32Small(0)
    /\ audioInit = FALSE /\ recording = FALSE /\ bufferPos = 0
    /\ avgLoud = FALSE /\ lastSoundTime = U32Small(0)
    /\ mic \in MicScripts

NextApp ==
    \/ SetupInit
    \/ SetupIdle
    \/ LoopNoButton
    \/ BootInIdle
    \/ BootStart
    \/ BootInListening
    \/ BootInResponding
    \/ LoopWake
    \/ WakeStart
    \/ LoopListen
    \/ RecRead
    \/ SwitchProcessing
    \/ SwitchResponding
    \/ SwitchError
    \/ SwitchDefault
    \/ StartFinish
    \/ StopDelete
    \/ TaskCheck
    \/ TaskReadFrame(MaxAppFrames)
    \/ TaskReadNothing
    \/ Tick(MaxAppTicks)

SpecApp == InitApp /\ [][NextApp]_vars

(***************************************************************************)
(* The assistant with a main loop that keeps running and a BOOT button     *)
(* that nobody presses during a recording.  setup() and loop() are one     *)
(* thread, so its steps are fair as a whole; time goes on up to the end of *)
(* the model's clock.  The microphone delivers MaxListenFrames frames to   *)
(* the detection task, too few for a wake word, so every recording starts  *)
(* by the BOOT button in IDLE; a recording that silence ends holds less    *)
(* than the 1000 samples processVoiceInput() asks for, so RESPONDING is    *)
(* not entered and its steps are left out.                                 *)
(***************************************************************************)
Foreground ==
    \/ SetupInit
    \/ SetupIdle
    \/ LoopNoButton
    \/ BootInIdle
    \/ BootStart
    \/ LoopWake
    \/ LoopListen
    \/ RecRead
    \/ SwitchProcessing
    \/ SwitchError
    \/ SwitchDefault
    \/ StartFinish
    \/ StopDelete

NextListen ==
    \/ Foreground
    \/ TaskCheck
    \/ TaskReadFrame(MaxListenFrames)
    \/ TaskReadNothing
    \/ Tick(MaxListenTicks)

SpecListen ==
    /\ InitApp
    /\ [][NextListen]_vars
    /\ WF_vars(Foreground)
    /\ WF_vars(Tick(MaxListenTicks))

(***************************************************************************)
(* The state machine that the tests assert, test_assistant_state.cpp.      *)
(***************************************************************************)
Events ==
    {"WIFI_CONNECTED", "WIFI_FAILED", "BOOT_BUTTON_PRESSED", "WAKE_WORD_DETECTED",
     "SILENCE_DETECTED", "PROCESSING_COMPLETE", "PLAYBACK_COMPLETE",
     "ERROR_OCCURRED", "ERROR_TIMEOUT"}

\* AssistantStateMachine::processEvent(event) in state, with the machine's
\* field wakeWordEnabled: the state it returns
processEvent(state, event, wakeWordEnabled) ==
    CASE state = "INIT" -> "CONNECTING_WIFI"
      [] state = "CONNECTING_WIFI" ->
           IF event = "WIFI_CONNECTED" THEN "IDLE"
           ELSE IF event = "WIFI_FAILED" THEN "ERROR" ELSE state
      [] state = "IDLE" ->
           IF \/ event = "BOOT_BUTTON_PRESSED"
              \/ event = "WAKE_WORD_DETECTED" /\ wakeWordEnabled
           THEN "LISTENING" ELSE state
      [] state = "LISTENING" ->
           IF event \in {"SILENCE_DETECTED", "BOOT_BUTTON_PRESSED"}
           THEN "PROCESSING"
           ELSE IF event = "ERROR_OCCURRED" THEN "ERROR" ELSE state
      [] state = "PROCESSING" ->
           IF event = "PROCESSING_COMPLETE" THEN "RESPONDING"
           ELSE IF event = "ERROR_OCCURRED" THEN "ERROR" ELSE state
      [] state = "RESPONDING" ->
           IF event \in {"PLAYBACK_COMPLETE", "BOOT_BUTTON_PRESSED"}
           THEN "IDLE" ELSE state
      [] state = "ERROR" ->
           IF event = "ERROR_TIMEOUT" THEN "IDLE" ELSE state

(***************************************************************************)
(* Properties.                                                             *)
(***************************************************************************)

\* C1: every detection that processAudioFrame accepts (counts, and hands to
\* the callback) comes at least DETECTION_COOLDOWN_MS after the previous
\* accepted one, however many matches lie in between.
C1_AcceptedDetectionsSpaced ==
    [][detectionCount' # detectionCount =>
          /\ detectionCount' = detectionCount + 1
          /\ sinceAccept = -1 \/ sinceAccept >= DETECTION_COOLDOWN_MS]_vars

\* two detections have been accepted, the later one after a match that the
\* cooldown suppressed or after a quiet cooldown
C1_Witness == detectionCount >= 2

\* C2: AudioInput::process() is inside i2s_read() only while no detection
\* task exists, so the task's read and the recorder's read of the microphone
\* port are never both in progress.
C2_RecorderReadsAlone == fg = "rec_read" => taskPc = "none"

\* the recorder is inside i2s_read() after a detection ended the session of
\* a task that has read frames
C2_Witness == fg = "rec_read" /\ detectionCount > 0 /\ micPos > 0

\* C3: once stopListening() has returned the detection task no longer
\* exists, so end() frees the buffers only when no task is left, and a task
\* never runs on freed buffers.
C3_StopJoinsTask ==
    /\ (fg = "idle" /\ lastCall \in {"stopListening", "end"}) => taskPc = "none"
    /\ fg = "end_free" => taskPc = "none"
    /\ taskPc # "none" => buffers = AllBuffers

\* end() is past its stopListening() of a session whose task has read frames
C3_Witness == fg = "end_free" /\ micPos > 0 /\ buffers = AllBuffers

\* C4: the detection task is inside i2s_read() only while isListening() is
\* true.
C4_TaskReadsOnlyWhileListening == taskPc = "read" => listening

\* C5: between foreground calls, isListening() implies that a detection
\* task exists and that the microphone port is installed and started.
C5_ListeningMeansReading ==
    (fg = "idle" /\ listening) =>
        (taskPc # "none" /\ drvInstalled /\ drvStarted)

\* C6: after stopListening() has returned from a session (whose
\* startListening() configured the port), the microphone driver is still
\* installed and the port is started, so that it delivers samples to a
\* reader as it is.
C6_StopLeavesPortReadable ==
    (fg = "idle" /\ lastCall = "stopListening" /\ cfgResult = "ok") =>
        (drvInstalled /\ drvStarted)

\* the last two setSensitivity() calls raised the sensitivity
SensitivityRaised ==
    prevSetting.calls = 2 /\ FLt(prevSetting.sensitivity, sensitivity)

\* C7: of two sensitivities handed to setSensitivity(), the higher one gives
\* the strictly lower energy threshold and trigger threshold.
C7_StrictlyLower ==
    SensitivityRaised =>
        /\ FLt(energyThreshold, prevSetting.energy)
        /\ FLt(triggerThreshold, prevSetting.trigger)

\* the number of callback invocations of the last two matches
PairCalls ==
    (IF matchLog[1].called THEN 1 ELSE 0) + (IF matchLog[2].called THEN 1 ELSE 0)

\* C8: of two matches with the callback registered, exactly one invokes it
\* when they are less than the cooldown apart and both do when they are more
\* than the cooldown apart.
C8_CooldownPairs ==
    (Len(matchLog) = 2 /\ matchLog[1].cb /\ matchLog[2].cb) =>
        /\ matchLog[2].gap < DETECTION_COOLDOWN_MS => PairCalls = 1
        /\ matchLog[2].gap > DETECTION_COOLDOWN_MS => PairCalls = 2

\* what a refused or failed startListening() leaves alone
startFrame == <<listening, taskPc, taskHandle, taskRunning, patternState,
                sustainedFrames, energyHistory, zcrHistory, historyIndex>>

\* C9: startListening() on a detector that is uninitialized, listening or
\* disabled changes neither the task, the peripheral, isListening() nor the
\* matcher's state.
C9_RefusedStartIsNoOp ==
    [][(StartListening /\ (~initialized \/ listening \/ ~enabled)) =>
          /\ fg' = "idle"
          /\ UNCHANGED <<startFrame, drvInstalled, drvStarted>>]_vars

\* startListening() has returned from a disabled detector that holds the
\* features and the half-matched pattern of an earlier session
C9_Witness ==
    /\ fg = "idle" /\ lastCall = "startListening" /\ cfgResult = "none"
    /\ initialized /\ ~enabled /\ ~listening
    /\ patternState # "IDLE" /\ historyIndex > 0

\* C10: when configureI2S() fails, startListening() returns with
\* isListening() false, no task, and the matcher's state as it was.
C10_FailedConfigureLeavesIdle ==
    [][(StartListening /\ cfgResult' \in {"install_fail", "pin_fail"}) =>
          /\ fg' = "idle"
          /\ ~listening'
          /\ taskPc' = "none"
          /\ UNCHANGED startFrame]_vars

\* startListening() has returned after a failed i2s_set_pin(), on a detector
\* that holds the features and the half-matched pattern of an earlier session
C10_Witness ==
    /\ fg = "idle" /\ lastCall = "startListening" /\ cfgResult = "pin_fail"
    /\ ~listening /\ taskPc = "none"
    /\ patternState # "IDLE" /\ historyIndex > 0

\* C11: every successful startListening() hands the new task a matcher in
\* IDLE with sustainedFrames 0, history index 0 and all history slots zero,
\* whatever the previous session left behind.
C11_SessionStartsClean ==
    [][(fg' = "start_created" /\ fg # "start_created") =>
          /\ patternState' = "IDLE"
          /\ sustainedFrames' = 0
          /\ historyIndex' = 0
          /\ \A i \in 0..(HISTORY_SIZE - 1) :
                energyHistory'[i] = 0 /\ zcrHistory'[i] = 0]_vars

\* a session has just been started on a detector whose earlier session read
\* frames and had entered the pattern (its start time is still recorded)
C11_Witness ==
    /\ fg = "start_created" /\ micPos > 0 /\ historyIndex = 0
    /\ patternState = "IDLE" /\ patternStartTime # U32Small(0)

\* C12: begin() on an initialized detector, listening or not, returns true
\* and changes nothing: not the buffers, not the histories, not any other
\* state of the detector, its task or the microphone port.
C12_BeginIdempotent ==
    [][((\E got \in [{"audio", "energy", "zcr"} -> BOOLEAN] : Begin(got))
            /\ initialized) =>
          /\ lastCall' = "begin_true"
          /\ UNCHANGED <<detVars, taskPc, drvInstalled, drvStarted, fg, fgRet,
                         crashed, micPos, cfgResult>>]_vars

\* begin() has returned true on a listening detector whose task has stored
\* features in the history
C12_Witness ==
    /\ fg = "idle" /\ lastCall = "begin_true" /\ listening
    /\ historyIndex > 0 /\ energyHistory # ZeroHistory

\* C13: when an allocation of begin() fails in setup(), begin() has
\* returned false with no buffer held and the detector uninitialized; from
\* then on no startListening() configures the port, creates a task or sets
\* isListening(); and a BOOT press in IDLE still takes the assistant to
\* LISTENING.
C13_AllocationFailureDegrades ==
    [][lastCall' = "begin_false" =>
          /\ ~initialized' /\ buffers' = NoBuffers
          /\ taskPc' = "none" /\ ~listening' /\ cfgResult' = "none"
          /\ BootInIdle => fg' = "boot_start"
          /\ BootStart => currentState' = "LISTENING"]_vars

\* after a failed begin() the BOOT button has started a recording
C13_Witness ==
    lastCall = "begin_false" /\ currentState = "LISTENING" /\ recording

\* C14: an evaluation of detectWakePattern that runs beside setSensitivity()
\* compares the frame against one value of the energy threshold: its second
\* comparison uses the value that its first comparison read.
C14_OneThresholdPerFrame ==
    [][(taskPc = "retest" /\ taskPc' = "check") =>
          thresholdRead' = thresholdRead]_vars

C17_SilenceStaysIdle ==
    [][(micPos' = micPos + 1 /\ CurrentFrame = Quiet /\ patternState = "IDLE") =>
          /\ patternState' = "IDLE"
          /\ sinceMatch' = sinceMatch /\ matchLog' = matchLog
          /\ detectionCount' = detectionCount]_vars

\* more than twenty silent frames in a row have been processed, the last
\* ones at another threshold than the first
C17_Witness ==
    /\ mic = SilentScript /\ micPos > 20 /\ patternState = "IDLE"
    /\ energyThreshold # WAKE_WORD_ENERGY_THRESHOLD

\* C18: a frame with zcr > 0.2 that the matcher gets in IDLE or RISING_EDGE
\* leaves it in IDLE or RISING_EDGE, whatever its energy, and does not make it
\* return true; so a run of such frames from IDLE never reaches SUSTAINED
\* or DETECTED and never returns true
C18_NoiseNeverSustains ==
    [][(/\ micPos' = micPos + 1 /\ NoisyFrame(CurrentFrame)
        /\ patternState \in {"IDLE", "RISING_EDGE"}) =>
          /\ patternState' \in {"IDLE", "RISING_EDGE"}
          /\ sinceMatch' = sinceMatch /\ matchLog' = matchLog
          /\ detectionCount' = detectionCount]_vars

\* noise has filled the history and the matcher is in RISING_EDGE
C18_Witness ==
    /\ mic = NoiseScript /\ micPos > HISTORY_SIZE
    /\ patternState = "RISING_EDGE" /\ sustainedFrames = 0

\* C19: in every step of the detector, whichever call or frame it is, the
\* detection count goes up by exactly 1 when a frame makes the matcher
\* return true with the cooldown over, and else keeps its value
C19_CountMonotonic ==
    [][LET matched  == micPos' = micPos + 1 /\ patternState' = "DETECTED"
           accepted == /\ matched
                       /\ U32Ge(U32Sub(now, lastDetectionTime),
                                DETECTION_COOLDOWN_MS)
       IN  detectionCount' = IF accepted THEN detectionCount + 1
                             ELSE detectionCount]_vars

\* a detection has been counted, and the count has outlived stopListening(),
\* end(), setSensitivity() and setEnabled(false)
C19_Witness ==
    /\ detectionCount = 1 /\ ~initialized /\ ~enabled /\ taskPc = "none"
    /\ energyThreshold # WAKE_WORD_ENERGY_THRESHOLD

\* C20: when the task's read times out, fails or returns zero bytes, the
\* feature history, the history index, the pattern state, sustainedFrames, the
\* detection count and the last-detection time keep their values, no callback
\* is invoked, and the task goes back to its loop test
C20_EmptyReadProcessesNothing ==
    [][(/\ taskPc = "read" /\ taskPc' # "read"
        /\ lastRead' \in {"timeout", "error", "empty"}) =>
          /\ taskPc' = "check"
          /\ UNCHANGED <<energyHistory, zcrHistory, historyIndex, patternState,
                         patternStartTime, sustainedFrames, detectionCount,
                         lastDetectionTime, wakeWordTriggered, matchLog>>]_vars

\* a read has returned zero bytes in the middle of a pattern
C20_Witness ==
    /\ lastRead = "empty" /\ taskPc = "check"
    /\ patternState = "SUSTAINED" /\ sustainedFrames = 4 /\ callbackSet

\* C21: the assistant enters LISTENING only from the two places that have
\* called stopListening() and got it back (the detector is not listening and
\* has no task) before startRecording(); and every change of the state to
\* IDLE, with the wake word enabled, calls startListening()
C21_StopBeforeRecordingStartOnIdle ==
    [][/\ (currentState' = "LISTENING" /\ currentState # "LISTENING") =>
             /\ fg \in {"boot_start", "wake_start"}
             /\ ~listening /\ ~taskRunning /\ taskPc = "none"
       /\ (/\ currentState' = "IDLE" /\ currentState # "IDLE"
           /\ WAKE_WORD_ENABLED /\ enabled) =>
             /\ startCalls' = 1
             /\ cfgResult' = "none" <=> StartRefused
             /\ fg' = "start_created" <=> cfgResult' = "ok"]_vars

\* a detected wake word has started a recording from IDLE, which had started
\* the detector; the detector has been stopped for it
C21_Witness ==
    /\ currentState = "LISTENING" /\ recording /\ fg = "loop_listen"
    /\ detectionCount > 0 /\ ~wakeWordTriggered /\ ~listening
    /\ startCalls = 1 /\ cfgResult = "ok"

\* C22: the assistant calls startListening() at most once for each change of
\* its state to IDLE; while the state stays IDLE no step makes another call,
\* whether the one call has started the detector or failed
C22_NoStartRetry ==
    [][/\ startCalls' <= 1
       /\ (currentState = "IDLE" /\ currentState' = "IDLE") =>
             /\ startCalls' = startCalls
             /\ cfgResult' = cfgResult
             /\ fg' = "start_created" => fg = "start_created"]_vars

\* the start of the detector has failed in configureI2S(), the state is IDLE
\* and the loop is running
C22_Witness ==
    /\ currentState = "IDLE" /\ fg = "loop_switch" /\ startCalls = 1
    /\ initialized /\ ~listening /\ cfgResult \notin {"ok", "none"}
    /\ taskPc = "none"

\* C23: a recording starts, and LISTENING is entered, only from IDLE; in
\* PROCESSING neither the button handling nor the trigger test of loop()
\* changes the state; the callback that sets the trigger flag changes no
\* state, and the trigger test with the flag set in a state other than IDLE
\* changes none and starts nothing
C23_RecordingOnlyFromIdle ==
    [][/\ (recording' /\ ~recording) => currentState = "IDLE"
       /\ (currentState' = "LISTENING" /\ currentState # "LISTENING") =>
             currentState = "IDLE"
       /\ (currentState = "PROCESSING" /\ fg \in {"loop_buttons", "loop_wake"}) =>
             currentState' = "PROCESSING"
       /\ (wakeWordTriggered' /\ ~wakeWordTriggered) =>
             currentState' = currentState
       /\ (fg = "loop_wake" /\ wakeWordTriggered /\ currentState # "IDLE") =>
             /\ currentState' = currentState /\ recording' = recording
             /\ fg' \in {"loop_wake", "loop_listen"}
             /\ wakeWordTriggered']_vars

\* loop() has just tested the trigger flag, which is set, in PROCESSING
C23_Witness ==
    /\ fg = "loop_listen" /\ currentState = "PROCESSING" /\ wakeWordTriggered
    /\ ~recording /\ detectionCount > 0

\* C24: the matcher returns true only from FALLING_EDGE, with 300..1200 ms
\* gone since the frame that took it from IDLE to RISING_EDGE and with at
\* least 5 sustained frames; a frame in FALLING_EDGE without both leaves it in
\* IDLE and returns false.  (The clock does not wrap in these runs, so the
\* difference of the two readings is the time gone.)
C24_DetectionsInWindow ==
    [][micPos' = micPos + 1 =>
         LET gone  == (now.hi - patternStartTime.hi) * Half
                        + now.lo - patternStartTime.lo
             valid == gone >= 300 /\ gone <= 1200 /\ sustainedFrames >= 5
         IN  /\ (patternState = "IDLE" /\ patternState' = "RISING_EDGE") =>
                   patternStartTime' = now
             /\ patternState # "IDLE" => patternStartTime' = patternStartTime
             /\ patternState' = "DETECTED" =>
                   (patternState = "FALLING_EDGE" /\ valid)
             /\ (sinceMatch' = 0 /\ sinceMatch # 0) => patternState' = "DETECTED"
             /\ patternState = "FALLING_EDGE" =>
                   IF valid
                   THEN patternState' = "DETECTED" /\ sinceMatch' = 0
                   ELSE /\ patternState' = "IDLE"
                        /\ sinceMatch' = sinceMatch /\ matchLog' = matchLog]_vars

\* a detection at the upper end of the window: 1200 ms after the rising edge
C24_Witness ==
    /\ patternState = "DETECTED" /\ sinceMatch = 0 /\ sustainedFrames = 5
    /\ now = U32Add(patternStartTime, U32Small(1200))

\* C25: the matcher returns true only on the frame that takes it from
\* FALLING_EDGE to DETECTED, and it is in DETECTED only after such a frame; the
\* next frame, whatever its features, leaves it in IDLE and returns false
C25_DetectedForOneFrame ==
    [][micPos' = micPos + 1 =>
         /\ matchLog' # matchLog =>
               (patternState = "FALLING_EDGE" /\ patternState' = "DETECTED")
         /\ patternState' = "DETECTED" => matchLog' # matchLog
         /\ patternState = "DETECTED" =>
               /\ patternState' = "IDLE"
               /\ matchLog' = matchLog /\ sinceMatch' = sinceMatch
               /\ detectionCount' = detectionCount]_vars

\* the frame after a detection was a loud one, and the matcher is in IDLE
C25_Witness ==
    /\ mic = RepeatScript /\ micPos = 9 /\ matchLog # <<>>
    /\ patternState = "IDLE"

\* C26: a frame with energy below 0.3 times the energy threshold that the
\* matcher gets in RISING_EDGE, in particular right after the frame that
\* entered RISING_EDGE, takes it back to IDLE on that frame without a return
\* of true, so that attempt never reaches SUSTAINED
C26_PrematureDropResets ==
    [][(/\ micPos' = micPos + 1 /\ patternState = "RISING_EDGE"
        /\ FLt(FFromInt(CurrentFrame.energy),
               FMul(energyThreshold, Flt(10066330, -25)))) =>
          /\ patternState' = "IDLE"
          /\ sustainedFrames' = sustainedFrames
          /\ matchLog' = matchLog]_vars

\* the second frame of the session, with energy 149 at a threshold of 500,
\* has taken the matcher from RISING_EDGE back to IDLE
C26_Witness ==
    /\ mic = DropScript /\ micPos = 2 /\ historyIndex = 2
    /\ energyThreshold = WAKE_WORD_ENERGY_THRESHOLD
    /\ patternState = "IDLE" /\ sustainedFrames = 0

\* C27: the pattern state is always one of the five states, and every frame
\* takes each state to exactly one of the states that follow it in the
\* matcher: IDLE to IDLE or RISING_EDGE; RISING_EDGE to itself, SUSTAINED or
\* IDLE; SUSTAINED to itself, IDLE or FALLING_EDGE; FALLING_EDGE to DETECTED
\* or IDLE; DETECTED to IDLE
C27_TransitionsTotal ==
    [][/\ patternState \in PatternStates /\ patternState' \in PatternStates
       /\ micPos' = micPos + 1 =>
             patternState' \in
                 CASE patternState = "IDLE" -> {"IDLE", "RISING_EDGE"}
                   [] patternState = "RISING_EDGE" ->
                        {"RISING_EDGE", "SUSTAINED", "IDLE"}
                   [] patternState = "SUSTAINED" ->
                        {"SUSTAINED", "IDLE", "FALLING_EDGE"}
                   [] patternState = "FALLING_EDGE" -> {"DETECTED", "IDLE"}
                   [] patternState = "DETECTED" -> {"IDLE"}]_vars

\* nine frames have taken the matcher through all five states and back to IDLE
C27_Witness ==
    /\ mic = WakeScript /\ micPos = 9 /\ matchLog # <<>>
    /\ patternState = "IDLE" /\ sustainedFrames = 5

\* C28: a run of the matcher that gets frames with NaN features is, after
\* every frame, in the same pattern state as the run that gets frames with
\* energy 0 and zcr 0 in their place, and has returned true on the same frames
C28_InvalidFrameAsSilence ==
    <<runs.a.ps, runs.a.fired>> = <<runs.b.ps, runs.b.fired>>

\* C29: calculateEnergy returns 0 for a frame of 0 samples, and
\* calculateZeroCrossingRate returns 0 for a frame of 0 samples and for a
\* frame of 1 sample
C29_DegenerateFramesGiveZero ==
    features.called =>
        /\ Len(features.samples) = 0 => features.energy = FZero
        /\ Len(features.samples) <= 1 => features.zcr = FZero

\* C30: after setSensitivity(x), also for x < 0 and x > 1, the stored
\* sensitivity s is x clamped to [0, 1], factor = 1 + (1 - s) lies in [1, 2],
\* and each threshold is its base constant divided by factor and lies between
\* half the base and the base
C30_ClampedSensitivityBoundsThresholds ==
    prevSetting.calls > 0 =>
        LET x      == prevSetting.arg
            factor == FAdd(FOne, FSub(FOne, sensitivity))
            two    == FAdd(FOne, FOne)
        IN  /\ sensitivity = IF FLt(x, FZero) THEN FZero
                             ELSE IF FLt(FOne, x) THEN FOne ELSE x
            /\ ~FLt(factor, FOne) /\ ~FLt(two, factor)
            /\ energyThreshold = FDiv(WAKE_WORD_ENERGY_THRESHOLD, factor)
            /\ triggerThreshold = FDiv(WAKE_WORD_TRIGGER_THRESHOLD, factor)
            /\ ~FLt(energyThreshold, FDiv(WAKE_WORD_ENERGY_THRESHOLD, two))
            /\ ~FLt(WAKE_WORD_ENERGY_THRESHOLD, energyThreshold)
            /\ ~FLt(triggerThreshold, FDiv(WAKE_WORD_TRIGGER_THRESHOLD, two))
            /\ ~FLt(WAKE_WORD_TRIGGER_THRESHOLD, triggerThreshold)

\* setSensitivity(x) with x > 1 has stored the sensitivity 1, after a call
\* with x < 0 that had stored the sensitivity 0
C30_Witness ==
    /\ prevSetting.calls = 2
    /\ FLt(FOne, prevSetting.arg) /\ sensitivity = FOne
    /\ prevSetting.sensitivity = FZero
    /\ energyThreshold = WAKE_WORD_ENERGY_THRESHOLD

\* C31: every change of the assistant's state that loop() and the functions
\* it calls perform is one that processEvent of the tests' state machine
\* makes from the same state on some event
C31_LoopRefinesTestMachine ==
    [][(fg # "setup" /\ currentState' # currentState) =>
          \E event \in Events, wakeWordEnabled \in BOOLEAN :
              processEvent(currentState, event, wakeWordEnabled) = currentState']_vars

\* C32: while isEnabled() is false, also after setEnabled(false) during a
\* listening session, no detection is counted and handed to the callback
C32_DisabledMeansNoCallback ==
    [][~enabled => ~(detectionCount' # detectionCount /\ callbackSet)]_vars

\* C33: a wake word trigger that loop() acts on (wakeWordTriggered seen true
\* in IDLE and cleared, the recording started) was raised since the assistant
\* last entered IDLE: the flag was not already set on entering IDLE
C33_TriggerFromCurrentIdle ==
    [][(wakeWordTriggered /\ ~wakeWordTriggered') => ~staleTrigger]_vars

\* C34: a recording session ends without user input: from LISTENING with the
\* recorder recording, the assistant gets to PROCESSING with no button press,
\* unless the recorder is still recording when the model's clock ends
C34_RecordingEndsWithoutInput ==
    (currentState = "LISTENING" /\ recording) ~>
        \/ currentState = "PROCESSING"
        \/ recording /\ ticks = MaxListenTicks

\* C35: the vTaskDelete(_taskHandle) of stopListening() is never called on a
\* task that has already left its loop and deleted itself
C35_DeleteOnlyLiveTask ==
    [][(fg = "stop_wait" /\ (fg' # "stop_wait" \/ crashed')) =>
          taskPc # "none"]_vars

\* C36 as stated: between foreground calls, while the detector is not
\* listening and no startListening() succeeds, the detection count (which
\* changes with every callback invocation), the feature history and the
\* pattern state do not change
C36_NothingChangesUntilStart ==
    [][(fg = "idle" /\ ~listening /\ fg' = "idle") =>
          UNCHANGED <<detectionCount, energyHistory, zcrHistory, historyIndex,
                      patternState, sustainedFrames>>]_vars

\* C36 amended: between foreground calls, while the detector is not listening,
\* no startListening() succeeds and neither end() nor begin() changes whether
\* the detector is initialized, the detection count (which changes with every
\* callback invocation), the feature history and the pattern state do not
\* change
C36_StoppedDetectorIsQuiet ==
    [][(fg = "idle" /\ ~listening /\ fg' = "idle"
        /\ initialized' = initialized) =>
          UNCHANGED <<detectionCount, energyHistory, zcrHistory, historyIndex,
                      patternState, sustainedFrames>>]_vars

\* stopListening() has returned from a session that left a pattern under way,
\* and time has passed since
C36_Witness ==
    /\ fg = "idle" /\ lastCall = "stopListening" /\ ~listening
    /\ micPos > 0 /\ patternState # "IDLE"
    /\ U32Gt(U32Sub(now, patternStartTime), 0)

\* C37: a pattern attempt ends within bounded time: with frames at most
\* TwinStepMs apart, the matcher is outside IDLE only while no more than
\* 1500 ms and AttemptTailFrames frames have passed since it left IDLE
C37_AttemptEndsInTime ==
    runs.a.ps # "IDLE" =>
        U32Le(U32Sub(runs.a.clock, runs.a.pst),
              1500 + AttemptTailFrames * TwinStepMs)

\* C38: in every state of the detector, from construction on, the energy
\* threshold and the trigger threshold are their base constants divided by
\* 1 + (1 - sensitivity), for the sensitivity that is stored
C38_ThresholdsFollowSensitivity ==
    /\ energyThreshold =
           FDiv(WAKE_WORD_ENERGY_THRESHOLD, SensitivityFactor(sensitivity))
    /\ triggerThreshold =
           FDiv(WAKE_WORD_TRIGGER_THRESHOLD, SensitivityFactor(sensitivity))

\* C39: the differences now - lastDetectionTime of the cooldown test and
\* millis() - patternStartTime of the pattern's elapsed time, taken in
\* unsigned 32-bit arithmetic, are the time that has really passed since the
\* accepted detection and since the rising edge, also when millis() has
\* wrapped from 2^32 - 1 to 0 in between, as long as less than 2^32 ms have
\* passed; so the cooldown test is true exactly when 2000 ms have passed
C39_ElapsedAcrossWrap ==
    /\ trueSince.accept.hi \in 0..(Half - 1) =>
          /\ U32Sub(now, lastDetectionTime) = U32(trueSince.accept.hi, trueSince.accept.lo)
          /\ CooldownOver(now, lastDetectionTime) <=>
                 (trueSince.accept.hi > 0 \/ trueSince.accept.lo >= DETECTION_COOLDOWN_MS)
    /\ trueSince.rise.hi \in 0..(Half - 1) =>
          U32Sub(now, patternStartTime) = U32(trueSince.rise.hi, trueSince.rise.lo)

\* millis() has wrapped since the last accepted detection and since the
\* rising edge of a pattern that is still open, and the cooldown is over
C39_Witness ==
    /\ trueSince.accept = [hi |-> 0, lo |-> DETECTION_COOLDOWN_MS]
    /\ trueSince.rise.hi = 0 /\ patternState = "SUSTAINED"
    /\ patternStartTime.hi = Half - 1
    /\ now.hi = 0 /\ lastDetectionTime.hi = Half - 1
    /\ detectionCount > 0

====
